---- MODULE Spec2Model ----
(***************************************************************************)
(* RAGQuery: the retrieval core of the question-answering system.          *)
(*   - HybridSearchEngine (src/hybrid_search.py): date/keyword index       *)
(*   - VectorDatabase     (src/vector_database.py): dense index            *)
(*   - QASystem           (src/qa_system.py): query router                 *)
(*   - TextProcessor      (src/text_processor.py): chunking                *)
(* Python strings are sequences of one-character strings, so that regular  *)
(* expressions, lower(), split() and f-strings are computed on characters. *)
(***************************************************************************)
EXTENDS Integers, Sequences, FiniteSets, TLC

(***************************************************************************)
(* Characters and the str methods the code uses                            *)
(***************************************************************************)
UpperSeq == <<"A","B","C","D","E","F","G","H","I","J","K","L","M","N","O","P","Q","R","S","T","U","V","W","X","Y","Z">>
LowerSeq == <<"a","b","c","d","e","f","g","h","i","j","k","l","m","n","o","p","q","r","s","t","u","v","w","x","y","z">>
DigitSeq == <<"0","1","2","3","4","5","6","7","8","9">>
UpperCh == {UpperSeq[i] : i \in 1..Len(UpperSeq)}
LowerCh == {LowerSeq[i] : i \in 1..Len(LowerSeq)}
DigitCh == {DigitSeq[i] : i \in 1..Len(DigitSeq)}
AlphaCh == UpperCh \cup LowerCh
SpaceCh == {" ", "\n", "\t"}
WordCh  == AlphaCh \cup DigitCh \cup {"_"}

LowerMap == [c \in UpperCh |-> LowerSeq[CHOOSE i \in 1..Len(UpperSeq) : UpperSeq[i] = c]]
UpperMap == [c \in LowerCh |-> UpperSeq[CHOOSE i \in 1..Len(LowerSeq) : LowerSeq[i] = c]]

\* str.lower()
lower(s) == [i \in 1..Len(s) |-> IF s[i] \in UpperCh THEN LowerMap[s[i]] ELSE s[i]]

\* str.capitalize(): first character upper-cased, the rest lower-cased
capitalize(s) ==
    [i \in 1..Len(s) |->
        IF i = 1 THEN (IF s[i] \in LowerCh THEN UpperMap[s[i]] ELSE s[i])
        ELSE (IF s[i] \in UpperCh THEN LowerMap[s[i]] ELSE s[i])]

\* str.isalpha(), str.isdigit(): non-empty and every character in the class
isalpha(s) == Len(s) > 0 /\ \A i \in 1..Len(s) : s[i] \in AlphaCh
isdigit(s) == Len(s) > 0 /\ \A i \in 1..Len(s) : s[i] \in DigitCh

\* `sub in s`: s[p .. p+Len(sub)-1] = sub for some p
StartsAt(sub, s, p) ==
    /\ p + Len(sub) - 1 <= Len(s)
    /\ \A j \in 1..Len(sub) : s[p + j - 1] = sub[j]
Contains(sub, s) == \E p \in 1..(Len(s) + 1) : StartsAt(sub, s, p)

\* s[:n]
Prefix(s, n) == SubSeq(s, 1, IF n < Len(s) THEN n ELSE Len(s))

\* The positions of s, in order, whose character satisfies Test
Positions(s, Test(_)) == SelectSeq([i \in 1..Len(s) |-> i], Test)

\* str.split(sep) for a one-character separator: empty fields are kept
split_on(s, sep) ==
    LET at == Positions(s, LAMBDA i : s[i] = sep) IN
    [j \in 1..(Len(at) + 1) |->
        SubSeq(s, IF j = 1 THEN 1 ELSE at[j - 1] + 1,
                  IF j = Len(at) + 1 THEN Len(s) ELSE at[j] - 1)]

\* str.split(): fields between runs of whitespace, no empty fields
split_ws(s) ==
    LET first == Positions(s, LAMBDA i : s[i] \notin SpaceCh /\ (i = 1 \/ s[i - 1] \in SpaceCh))
        final == Positions(s, LAMBDA i : s[i] \notin SpaceCh /\ (i = Len(s) \/ s[i + 1] \in SpaceCh))
    IN [j \in 1..Len(first) |-> SubSeq(s, first[j], final[j])]

\* str.replace(",", ""): the characters other than ch, in order
RemoveCh(s, ch) == SelectSeq(s, LAMBDA c : c # ch)

\* The elements of a sequence
Range(q) == {q[i] : i \in 1..Len(q)}

(***************************************************************************)
(* Regular expressions (Python's re): a pattern is a sequence of items,    *)
(*   [k |-> "cls", set, min, max]  a character class with a greedy {m,n}   *)
(*                                 (max = -1: no upper limit)              *)
(*   [k |-> "b"]                   \b                                      *)
(*   [k |-> "lb", set]             (?<=[set]), a one-character lookbehind  *)
(*   [k |-> "alt", alts]           ordered alternation of literals         *)
(* matched left to right with backtracking, and the items a group spans.   *)
(***************************************************************************)
Cls(S, lo, hi) == [k |-> "cls", set |-> S, min |-> lo, max |-> hi]
WordB == [k |-> "b"]
Alt(a) == [k |-> "alt", alts |-> a]

IsWordAt(s, p) == p >= 1 /\ p <= Len(s) /\ s[p] \in WordCh
AtBoundary(s, p) == IsWordAt(s, p - 1) # IsWordAt(s, p)

\* Number of consecutive characters of S from position p, at most hi
RECURSIVE RunLen(_, _, _, _)
RunLen(s, p, S, hi) ==
    IF hi = 0 \/ p > Len(s) \/ s[p] \notin S THEN 0
    ELSE 1 + RunLen(s, p + 1, S, hi - 1)

NoMatch == <<-1>>
Failed(r) == r # <<>> /\ r[1] = -1

\* MatchItems: the end position of each item i..n for the first (greedy, then
\* backtracking) match of items i..n at position p, or NoMatch
RECURSIVE MatchItems(_, _, _, _)
RECURSIVE TryCount(_, _, _, _, _)
RECURSIVE TryAlt(_, _, _, _, _)
MatchItems(items, i, s, p) ==
    IF i > Len(items) THEN <<>>
    ELSE LET it == items[i] IN
         IF it.k = "b" THEN
             IF AtBoundary(s, p)
             THEN LET r == MatchItems(items, i + 1, s, p)
                  IN IF Failed(r) THEN NoMatch ELSE <<p>> \o r
             ELSE NoMatch
         ELSE IF it.k = "lb" THEN
             IF p > 1 /\ s[p - 1] \in it.set
             THEN LET r == MatchItems(items, i + 1, s, p)
                  IN IF Failed(r) THEN NoMatch ELSE <<p>> \o r
             ELSE NoMatch
         ELSE IF it.k = "cls" THEN
             LET run == RunLen(s, p, it.set, IF it.max < 0 THEN Len(s) ELSE it.max)
             IN IF run < it.min THEN NoMatch ELSE TryCount(items, i, s, p, run)
         ELSE TryAlt(items, i, s, p, 1)
TryCount(items, i, s, p, n) ==
    LET r == MatchItems(items, i + 1, s, p + n)
    IN IF ~Failed(r) THEN <<p + n>> \o r
       ELSE IF n > items[i].min THEN TryCount(items, i, s, p, n - 1)
       ELSE NoMatch
TryAlt(items, i, s, p, a) ==
    IF a > Len(items[i].alts) THEN NoMatch
    ELSE LET lit == items[i].alts[a] IN
         IF StartsAt(lit, s, p)
         THEN LET r == MatchItems(items, i + 1, s, p + Len(lit))
              IN IF ~Failed(r) THEN <<p + Len(lit)>> \o r
                 ELSE TryAlt(items, i, s, p, a + 1)
         ELSE TryAlt(items, i, s, p, a + 1)

\* The text of the group spanning items g[1]..g[2] of a match at p with ends e
GroupText(s, p, e, g) ==
    SubSeq(s, IF g[1] = 1 THEN p ELSE e[g[1] - 1], e[g[2]] - 1)

\* What re.findall reports for one match: the whole match without groups,
\* the group with one group, the tuple of groups with several
MatchValue(pat, s, p, e) ==
    IF Len(pat.groups) = 0 THEN SubSeq(s, p, e[Len(e)] - 1)
    ELSE IF Len(pat.groups) = 1 THEN GroupText(s, p, e, pat.groups[1])
    ELSE [g \in 1..Len(pat.groups) |-> GroupText(s, p, e, pat.groups[g])]

\* Every position of s with what MatchItems gives there
MatchTable(pat, s) == [p \in 1..(Len(s) + 1) |-> MatchItems(pat.items, 1, s, p)]
Least(S) == CHOOSE x \in S : \A y \in S : x <= y

\* The non-overlapping matches, leftmost first, as <<start, ends>>: the scan
\* resumes at the end of a match (one further after an empty match)
RECURSIVE SpansFrom(_, _)
SpanAt(ends, q) ==
    <<(<<q, ends[q]>>)>>
    \o SpansFrom(ends, IF ends[q][Len(ends[q])] > q THEN ends[q][Len(ends[q])] ELSE q + 1)
SpansFrom(ends, p) ==
    IF \A q \in p..Len(ends) : Failed(ends[q]) THEN <<>>
    ELSE SpanAt(ends, Least({q \in p..Len(ends) : ~Failed(ends[q])}))
MatchSpans(pat, s) == SpansFrom(MatchTable(pat, s), 1)

\* re.findall(pattern, s)
MatchValues(pat, s, spans) ==
    [i \in 1..Len(spans) |-> MatchValue(pat, s, spans[i][1], spans[i][2])]
findall(pat, s) == MatchValues(pat, s, MatchSpans(pat, s))

\* re.search(pattern, s) is not None
search(pat, s) == \E p \in 1..(Len(s) + 1) : ~Failed(MatchItems(pat.items, 1, s, p))

Digits(lo, hi) == Cls(DigitCh, lo, hi)
Letters(lo, hi) == Cls(AlphaCh, lo, hi)
Lit(c) == Cls({c}, 1, 1)
LitIC(c) == Cls({c, UpperMap[c]}, 1, 1)
Spaces1 == Cls(SpaceCh, 1, -1)
Spaces0 == Cls(SpaceCh, 0, -1)
Pat(items) == [items |-> items, groups |-> <<>>]
PatG(items, groups) == [items |-> items, groups |-> groups]

\* r'\b\d{1,2}-[A-Za-z]{3,9}\b'
PatDayHyphenMonth == Pat(<<WordB, Digits(1, 2), Lit("-"), Letters(3, 9), WordB>>)
\* r'\b[A-Za-z]{3,9}\s+\d{1,2}\b'
PatMonthDay == Pat(<<WordB, Letters(3, 9), Spaces1, Digits(1, 2), WordB>>)
\* r'\b\d{1,2}/\d{1,2}/\d{2,4}\b'
PatSlash == Pat(<<WordB, Digits(1, 2), Lit("/"), Digits(1, 2), Lit("/"), Digits(2, 4), WordB>>)
\* r'\b[A-Za-z]{3,9}\s+\d{1,2},?\s+\d{4}\b'
PatMonthDayYear ==
    Pat(<<WordB, Letters(3, 9), Spaces1, Digits(1, 2), Cls({","}, 0, 1), Spaces1,
          Digits(4, 4), WordB>>)
\* r'\b\d{1,2}\s+[A-Za-z]{3,9}\b'
PatDayMonth == Pat(<<WordB, Digits(1, 2), Spaces1, Letters(3, 9), WordB>>)
\* r'\bon\s+(\d{1,2}-[A-Za-z]{3,9})\b' (IGNORECASE)
PatOnDayHyphenMonth ==
    PatG(<<WordB, LitIC("o"), LitIC("n"), Spaces1, Digits(1, 2), Lit("-"), Letters(3, 9),
           WordB>>, << <<5, 7>> >>)
\* r'\bon\s+([A-Za-z]{3,9}\s+\d{1,2})\b' (IGNORECASE)
PatOnMonthDay ==
    PatG(<<WordB, LitIC("o"), LitIC("n"), Spaces1, Letters(3, 9), Spaces1, Digits(1, 2),
           WordB>>, << <<5, 7>> >>)

MonthNames ==
    <<<<"j","a","n">>,
       <<"f","e","b">>,
       <<"m","a","r">>,
       <<"a","p","r">>,
       <<"m","a","y">>,
       <<"j","u","n">>,
       <<"j","u","l">>,
       <<"a","u","g">>,
       <<"s","e","p">>,
       <<"o","c","t">>,
       <<"n","o","v">>,
       <<"d","e","c">>,
       <<"j","a","n","u","a","r","y">>,
       <<"f","e","b","r","u","a","r","y">>,
       <<"m","a","r","c","h">>,
       <<"a","p","r","i","l">>,
       <<"m","a","y">>,
       <<"j","u","n","e">>,
       <<"j","u","l","y">>,
       <<"a","u","g","u","s","t">>,
       <<"s","e","p","t","e","m","b","e","r">>,
       <<"o","c","t","o","b","e","r">>,
       <<"n","o","v","e","m","b","e","r">>,
       <<"d","e","c","e","m","b","e","r">>>>
\* r'\b(jan|...|december)\s*(\d{1,2})\b'
month_day_pattern ==
    PatG(<<WordB, Alt(MonthNames), Spaces0, Digits(1, 2), WordB>>, << <<2, 2>>, <<4, 4>> >>)
\* r'\b(\d{1,2})\s*(jan|...|december)\b'
day_month_pattern ==
    PatG(<<WordB, Digits(1, 2), Spaces0, Alt(MonthNames), WordB>>, << <<2, 2>>, <<4, 4>> >>)

\* f-string pieces
Hy == <<"-">>
Sp == <<" ">>

(***************************************************************************)
(* HybridSearchEngine: date variants                                       *)
(***************************************************************************)
\* month_mappings: <<key, <<variants>> >> in source order
month_mappings ==
    <<
       <<<<"j","a","n">>, <<<<"j","a","n","u","a","r","y">>, <<"j","a","n">>>>>>,
       <<<<"f","e","b">>, <<<<"f","e","b","r","u","a","r","y">>, <<"f","e","b">>>>>>,
       <<<<"m","a","r">>, <<<<"m","a","r","c","h">>, <<"m","a","r">>>>>>,
       <<<<"a","p","r">>, <<<<"a","p","r","i","l">>, <<"a","p","r">>>>>>,
       <<<<"m","a","y">>, <<<<"m","a","y">>>>>>,
       <<<<"j","u","n">>, <<<<"j","u","n","e">>, <<"j","u","n">>>>>>,
       <<<<"j","u","l">>, <<<<"j","u","l","y">>, <<"j","u","l">>>>>>,
       <<<<"a","u","g">>, <<<<"a","u","g","u","s","t">>, <<"a","u","g">>>>>>,
       <<<<"s","e","p">>, <<<<"s","e","p","t","e","m","b","e","r">>, <<"s","e","p","t">>, <<"s","e","p">>>>>>,
       <<<<"o","c","t">>, <<<<"o","c","t","o","b","e","r">>, <<"o","c","t">>>>>>,
       <<<<"n","o","v">>, <<<<"n","o","v","e","m","b","e","r">>, <<"n","o","v">>>>>>,
       <<<<"d","e","c">>, <<<<"d","e","c","e","m","b","e","r">>, <<"d","e","c">>>>>>
    >>
MonthKeys == {month_mappings[i][1] : i \in 1..Len(month_mappings)}
MonthVariantsOf(key) ==
    Range(month_mappings[CHOOSE i \in 1..Len(month_mappings) : month_mappings[i][1] = key][2])

\* The six renderings of a day with a month and a second spelling of the month
Renderings(day, month, respelled) ==
    { day \o Hy \o month, day \o Sp \o month, month \o Sp \o day,
      day \o Hy \o respelled, day \o Sp \o respelled, respelled \o Sp \o day }

\* The six renderings the hyphen branch adds for one month variant
HyphenForms(day, mv) == Renderings(day, mv, capitalize(mv))

\* The six renderings the space branches add
SpaceForms(day, month) == Renderings(day, month, lower(month))

\* generate_date_variants without the month renderings
generate_date_variants_self(date_str) == {date_str}

generate_date_variants(date_str) ==
    LET MonthForms(day, month_lower) ==
            IF month_lower \in MonthKeys
            THEN UNION {HyphenForms(day, mv) : mv \in MonthVariantsOf(month_lower)}
            ELSE {}
        \* parts = date_str.split('-')
        HyphenBranch(parts) ==
            IF Len(parts) = 2 THEN MonthForms(parts[1], Prefix(lower(parts[2]), 3)) ELSE {}
        \* parts = date_str.replace(',', '').split()
        SpaceBranch(parts) ==
            IF Len(parts) >= 2 THEN
                IF isalpha(parts[1]) /\ isdigit(parts[2]) THEN SpaceForms(parts[2], parts[1])
                ELSE IF isdigit(parts[1]) /\ isalpha(parts[2]) THEN SpaceForms(parts[1], parts[2])
                ELSE {}
            ELSE {}
    IN {date_str} \cup
       (IF "-" \in Range(date_str) THEN HyphenBranch(split_on(date_str, "-"))
        ELSE IF " " \in Range(date_str) THEN SpaceBranch(split_ws(RemoveCh(date_str, ",")))
        ELSE {})

(***************************************************************************)
(* Iteration order of a Python set of strings. It depends on the string    *)
(* hashes, which are salted once per process (PYTHONHASHSEED): within one  *)
(* process the same set iterates in the same order. hashseed is that salt. *)
(***************************************************************************)
CodeSeq ==
    <<"\n", " ", "(", ")", ",", "-", ".", "/", ":", "?", "_", "|">> \o DigitSeq \o UpperSeq \o LowerSeq
Code(c) == IF \E i \in 1..Len(CodeSeq) : CodeSeq[i] = c
           THEN CHOOSE i \in 1..Len(CodeSeq) : CodeSeq[i] = c
           ELSE 0

RECURSIVE LexLess(_, _, _)
LexLess(a, b, i) ==
    LET ByCode(ca, cb) == IF ca # cb THEN ca < cb ELSE LexLess(a, b, i + 1) IN
    IF i > Len(a) THEN i <= Len(b)
    ELSE IF i > Len(b) THEN FALSE
    ELSE ByCode(Code(a[i]), Code(b[i]))

RECURSIVE HashSum(_, _, _)
HashSum(s, seed, i) ==
    IF i > Len(s) THEN 0 ELSE (Code(s[i]) * (i + seed) + HashSum(s, seed, i + 1)) % 7
StrHash(s, seed) == HashSum(s, seed, 1)

Before(a, b, seed) ==
    LET ByHash(ha, hb) == ha < hb \/ (ha = hb /\ LexLess(a, b, 1)) IN
    ByHash(StrHash(a, seed), StrHash(b, seed))

\* list(S) for a set S of strings
RECURSIVE SetToList(_, _)
SetToList(S, seed) ==
    LET From(m) == <<m>> \o SetToList(S \ {m}, seed) IN
    IF S = {} THEN <<>>
    ELSE From(CHOOSE x \in S : \A y \in S \ {x} : Before(x, y, seed))

(***************************************************************************)
(* HybridSearchEngine: indexing and date search                            *)
(***************************************************************************)
EmptyMap == [x \in {} |-> <<>>]

\* The four patterns of extract_dates, in source order
index_date_patterns == <<PatDayHyphenMonth, PatMonthDay, PatSlash, PatMonthDayYear>>

RECURSIVE FlatMatches(_, _, _)
FlatMatches(pats, s, i) ==
    IF i > Len(pats) THEN <<>> ELSE findall(pats[i], s) \o FlatMatches(pats, s, i + 1)

\* extract_dates: every variant of every pattern match, as a set
extract_dates(text) ==
    { v : v \in UNION { generate_date_variants(d) :
                        d \in Range(FlatMatches(index_date_patterns, text, 1)) } }

technical_terms ==
    <<<<"d","r","i","l","l","i","n","g">>,
      <<"h","o","l","e">>,
      <<"s","e","c","t","i","o","n">>,
      <<"w","b","m">>,
      <<"b","b","l","s">>,
      <<"s","w","e","e","p">>,
      <<"c","i","r","c","u","l","a","t","e">>,
      <<"w","e","i","g","h","t">>,
      <<"t","r","i","p">>,
      <<"s","h","o","e">>,
      <<"r","a","m","s">>,
      <<"b","o","t","t","o","m">>,
      <<"p","i","l","l">>,
      <<"g","y","r","o">>,
      <<"p","u","l","l">>>>

\* extract_keywords: the terms that occur in the (lower-cased) text, in list order
extract_keywords(text) == SelectSeq(technical_terms, LAMBDA t : Contains(t, text))

\* dict[key].append(v) n times on a defaultdict(list)
AppendN(map, key, v, n) ==
    [k \in DOMAIN map \cup {key} |->
        (IF k \in DOMAIN map THEN map[k] ELSE <<>>) \o [i \in 1..n |-> v]]

RECURSIVE AppendAll(_, _, _, _)
AppendAll(map, keys, v, i) ==
    IF i > Len(keys) THEN map ELSE AppendAll(AppendN(map, keys[i], v, 1), keys, v, i + 1)

\* for date in dates: date_index[date.lower()].append(chunk_id)
IndexDates(map, dates, chunk_id) ==
    LET keys == {lower(d) : d \in dates} IN
    [k \in DOMAIN map \cup keys |->
        (IF k \in DOMAIN map THEN map[k] ELSE <<>>)
        \o (IF k \in keys
            THEN [i \in 1..Cardinality({d \in dates : lower(d) = k}) |-> chunk_id]
            ELSE <<>>)]

\* The five patterns of search_by_date, in source order
query_date_patterns ==
    <<PatDayHyphenMonth, PatMonthDay, PatDayMonth, PatOnDayHyphenMonth, PatOnMonthDay>>

\* The date terms search_by_date extracts from the query
found_dates(query) ==
    LET \* f"{month} {day}" for month, day in matches (f"{day} {month}" for day, month)
        Terms(matches) == [i \in 1..Len(matches) |-> matches[i][1] \o Sp \o matches[i][2]]
        Indicators(query_lower) ==
            Terms(findall(month_day_pattern, query_lower))
            \o Terms(findall(day_month_pattern, query_lower))
        Found(explicit) == IF explicit # <<>> THEN explicit ELSE Indicators(lower(query))
    IN Found(FlatMatches(query_date_patterns, query, 1))

\* The lower-cased variants of every date term of the query, which search_by_date
\* looks up in date_index
query_date_variants(query) ==
    { lower(w) : w \in UNION { generate_date_variants(t) : t \in Range(found_dates(query)) } }

(***************************************************************************)
(* QASystem: classification of a question                                  *)
(***************************************************************************)
date_indicators ==
    <<<<"w","h","a","t"," ","w","a","s"," ","d","o","n","e"," ","o","n">>,
      <<"a","c","t","i","v","i","t","i","e","s"," ","o","n">>,
      <<"h","a","p","p","e","n","e","d"," ","o","n">>,
      <<"o","c","c","u","r","r","e","d"," ","o","n">>,
      <<"o","n"," ">>,
      <<"d","a","t","e">>,
      <<"w","h","a","t"," ","t","o","o","k"," ","p","l","a","c","e"," ","o","n">>,
      <<"e","v","e","n","t","s"," ","o","n">>,
      <<"w","o","r","k"," ","o","n">>>>

\* The three date_patterns of answer_question_enhanced
router_date_patterns == <<PatDayHyphenMonth, PatMonthDay, PatSlash>>

\* Indicators matched without their trailing space
has_indicator_loose(question) ==
    \E i \in 1..Len(date_indicators) :
        Contains(SelectSeq(date_indicators[i], LAMBDA c : c # " "),
                 SelectSeq(lower(question), LAMBDA c : c # " "))
has_indicator(question) ==
    \E i \in 1..Len(date_indicators) : Contains(date_indicators[i], lower(question))
has_date_pattern(question) ==
    \E i \in 1..Len(router_date_patterns) : search(router_date_patterns[i], question)
\* A classification that takes every question for a date query
is_date_query_any(question) == question # <<>>
is_date_query(question) == has_indicator(question) \/ has_date_pattern(question)

(***************************************************************************)
(* TextProcessor: date normalisation and chunking                          *)
(***************************************************************************)
\* r'\b\d{4}-\d{2}-\d{2}\b'
PatIso == Pat(<<WordB, Digits(4, 4), Lit("-"), Digits(2, 2), Lit("-"), Digits(2, 2), WordB>>)
\* self.date_patterns
date_patterns == <<PatDayHyphenMonth, PatMonthDay, PatSlash, PatIso>>
\* r'\d{1,2}-[A-Za-z]{3,9}', used with re.match (anchored at the start)
PatExpandable == Pat(<<Digits(1, 2), Lit("-"), Letters(3, 9)>>)
\* r'(?<=[.!?])\s+'
PatSentenceEnd == Pat(<<[k |-> "lb", set |-> {".", "!", "?"}], Spaces1>>)

StrSeptember == <<"S","e","p","t","e","m","b","e","r">>
StrSep == <<"s","e","p">>
StrTh == <<"t","h">>
StrBar == <<" ","|"," ">>
StrOpen == <<" ","(">>
StrClose == <<")">>
StrDateContext == <<"D","a","t","e"," ","c","o","n","t","e","x","t",":"," ">>
StrNewline == <<"\n">>

\* sep.join(parts)
RECURSIVE JoinFrom(_, _, _)
JoinFrom(parts, sep, i) ==
    IF i > Len(parts) THEN <<>>
    ELSE IF i = Len(parts) THEN parts[i]
    ELSE parts[i] \o sep \o JoinFrom(parts, sep, i + 1)
join(sep, parts) == JoinFrom(parts, sep, 1)

\* expand_date_formats: list(set(formats)); the hyphen form is the only one expanded
expand_date_formats(date_str, seed) ==
    LET \* day, month = date_str.split('-')
        Formats(day, month) ==
            { month \o Sp \o day,
              month \o Sp \o day \o StrTh,
              IF StartsAt(StrSep, lower(month), 1)
              THEN StrSeptember \o Sp \o day ELSE month \o Sp \o day,
              day \o Sp \o month,
              date_str }
        Split(parts) == Formats(parts[1], parts[2])
    IN IF ~Failed(MatchItems(PatExpandable.items, 1, date_str, 1))
       THEN SetToList(Split(split_on(date_str, "-")), seed)
       ELSE <<>>

\* The keys of date_replacements in insertion order: each distinct match once, at
\* the place of its first occurrence
RECURSIVE Distinct(_, _, _)
Distinct(q, i, seen) ==
    IF i > Len(q) THEN <<>>
    ELSE IF q[i] \in seen THEN Distinct(q, i + 1, seen)
    ELSE <<q[i]>> \o Distinct(q, i + 1, seen \cup {q[i]})

\* str.replace(old, new): every non-overlapping occurrence, leftmost first
RECURSIVE ReplaceFrom(_, _, _, _, _)
ReplaceFrom(s, old, new, occ, p) ==
    LET At(q) == SubSeq(s, p, q - 1) \o new \o ReplaceFrom(s, old, new, occ, q + Len(old)) IN
    IF \A q \in occ : q < p THEN SubSeq(s, p, Len(s))
    ELSE At(Least({q \in occ : q >= p}))
replace(s, old, new) ==
    ReplaceFrom(s, old, new, {p \in 1..Len(s) : StartsAt(old, s, p)}, 1)

RECURSIVE ApplyReplacements(_, _, _, _)
ApplyReplacements(text, keys, i, seed) ==
    IF i > Len(keys) THEN text
    ELSE ApplyReplacements(
            replace(text, keys[i],
                    keys[i] \o StrOpen \o join(StrBar, expand_date_formats(keys[i], seed))
                            \o StrClose),
            keys, i + 1, seed)

normalize_dates(text, seed) ==
    ApplyReplacements(text, Distinct(FlatMatches(date_patterns, text, 1), 1, {}), 1, seed)

\* re.split(pattern, text): the pieces between the matches
re_split(pat, s) ==
    LET End(span) == span[2][Len(span[2])]
        Pieces(spans) ==
            [j \in 1..(Len(spans) + 1) |->
                SubSeq(s, IF j = 1 THEN 1 ELSE End(spans[j - 1]),
                          IF j = Len(spans) + 1 THEN Len(s) ELSE spans[j][1] - 1)]
    IN Pieces(MatchSpans(pat, s))

\* str.strip()
strip(s) ==
    LET Between(keep) ==
            IF keep = {} THEN <<>>
            ELSE SubSeq(s, Least(keep), CHOOSE x \in keep : \A y \in keep : y <= x)
    IN Between({i \in 1..Len(s) : s[i] \notin SpaceCh})

\* s[-n:]
Suffix(s, n) == SubSeq(s, Len(s) - n + 1, Len(s))

\* A test that takes every sentence for a dated one
has_date_any(sentence) == TRUE
has_date(sentence) == \E i \in 1..Len(date_patterns) : search(date_patterns[i], sentence)

\* One iteration of the sentence loop of chunk_text_smart on
\* st = [chunks, current_chunk, current_date_context]
chunk_step(st, sentence, chunk_size, overlap) ==
    LET Step(cur, ctx) ==
            IF Len(cur) + Len(sentence) > chunk_size /\ cur # <<>> THEN
                LET final_chunk ==
                        IF ctx # <<>> /\ ~Contains(ctx, cur)
                        THEN StrDateContext \o ctx \o StrNewline \o cur
                        ELSE cur
                    overlap_text == IF Len(cur) > overlap THEN Suffix(cur, overlap) ELSE cur
                IN [chunks |-> Append(st.chunks, strip(final_chunk)),
                    current_chunk |-> ctx \o Sp \o overlap_text \o Sp \o sentence,
                    current_date_context |-> ctx]
            ELSE [chunks |-> st.chunks,
                  current_chunk |-> cur \o Sp \o sentence,
                  current_date_context |-> ctx]
    IN Step(st.current_chunk,
            IF has_date(sentence) THEN sentence ELSE st.current_date_context)

RECURSIVE chunk_loop(_, _, _, _, _)
chunk_loop(st, sentences, i, chunk_size, overlap) ==
    IF i > Len(sentences) THEN st
    ELSE chunk_loop(chunk_step(st, sentences[i], chunk_size, overlap), sentences, i + 1,
                    chunk_size, overlap)

chunk_text_smart(text, chunk_size, overlap, seed) ==
    LET Chunks(chunks, current_chunk) ==
            IF current_chunk # <<>> THEN Append(chunks, current_chunk) ELSE chunks
        Finish(st) == Chunks(st.chunks, strip(st.current_chunk))
    IN Finish(chunk_loop([chunks |-> <<>>, current_chunk |-> <<>>,
                          current_date_context |-> <<>>],
                         re_split(PatSentenceEnd, normalize_dates(text, seed)),
                         1, chunk_size, overlap))

\* str(i) for i >= 0
RECURSIVE IntToStr(_)
IntToStr(i) == IF i < 10 THEN <<DigitSeq[i + 1]>> ELSE IntToStr(i \div 10) \o <<DigitSeq[(i % 10) + 1]>>

\* Default chunk_size and overlap of chunk_text_smart
DefaultChunkSize == 500
DefaultOverlap == 100

(***************************************************************************)
(* Numbers. Embeddings are integer vectors of integral length, so that the *)
(* L2-normalised vectors and their inner products are exact rationals      *)
(* [num, den] (den > 0, lowest terms); float(score) is that rational.      *)
(***************************************************************************)
Abs(n) == IF n < 0 THEN -n ELSE n
RECURSIVE Gcd(_, _)
Gcd(a, b) == IF b = 0 THEN a ELSE Gcd(b, a % b)
Rat(n, d) ==
    LET g == Gcd(Abs(n), Abs(d))
        sgn == IF d < 0 THEN -1 ELSE 1
    IN [num |-> sgn * (n \div g), den |-> sgn * (d \div g)]
RAdd(a, b) == Rat(a.num * b.den + b.num * a.den, a.den * b.den)
RMul(a, b) == Rat(a.num * b.num, a.den * b.den)
RLess(a, b) == a.num * b.den < b.num * a.den
RZero == [num |-> 0, den |-> 1]
\* The literal 1.0
ROne == [num |-> 1, den |-> 1]
\* -FLT_MAX, the score faiss reports with the label -1 of a missing neighbour;
\* it is below every inner product
PadScore == [num |-> -1000, den |-> 1]

RECURSIVE SumTo(_, _)
SumTo(f, n) == IF n = 0 THEN 0 ELSE f[n] + SumTo(f, n - 1)
RECURSIVE RSumTo(_, _)
RSumTo(f, n) == IF n = 0 THEN RZero ELSE RAdd(f[n], RSumTo(f, n - 1))

SumSq(v) == SumTo([i \in 1..Len(v) |-> v[i] * v[i]], Len(v))
\* np.linalg.norm(v)
Norm(v) == CHOOSE n \in 0..SumSq(v) : n * n = SumSq(v)
\* np.dot(a, b) on integer vectors
IntDot(a, b) == SumTo([i \in 1..Len(a) |-> a[i] * b[i]], Len(a))
\* Inner product of two rational vectors
RDot(a, b) == RSumTo([i \in 1..Len(a) |-> RMul(a[i], b[i])], Len(a))

\* faiss.normalize_L2 on one row: divided by its norm, a zero row left as it is
normalize_L2(v) ==
    [i \in 1..Len(v) |-> IF SumSq(v) = 0 THEN RZero ELSE Rat(v[i], Norm(v))]

(***************************************************************************)
(* faiss.IndexFlatIP: d and the stored rows                                *)
(***************************************************************************)
IndexFlatIP(d) == [d |-> d, vectors |-> <<>>]

\* Row i comes before row j in the result: higher inner product first, equal
\* inner products by ascending label
RanksBefore(index, q, i, j) ==
    LET si == RDot(q, index.vectors[i])
        sj == RDot(q, index.vectors[j])
    IN RLess(sj, si) \/ (si = sj /\ i < j)

\* index.search(q, k) for one query row: k (score, label) pairs, labels from 0,
\* padded with (-FLT_MAX, -1) when the index holds fewer than k rows
index_search(index, q, k) ==
    LET n == Len(index.vectors)
        rank(i) == 1 + Cardinality({j \in 1..n : RanksBefore(index, q, j, i)})
    IN [r \in 1..k |->
          IF r <= n
          THEN LET i == CHOOSE i \in 1..n : rank(i) = r
               IN [score |-> RDot(q, index.vectors[i]), idx |-> i - 1]
          ELSE [score |-> PadScore, idx |-> -1]]

\* faiss.serialize_index: the header and the rows as one flat array
RECURSIVE Flatten(_, _)
Flatten(rows, i) == IF i > Len(rows) THEN <<>> ELSE rows[i] \o Flatten(rows, i + 1)
serialize_index(index) ==
    [fourcc |-> "IxFI", d |-> index.d, ntotal |-> Len(index.vectors),
     xb |-> Flatten(index.vectors, 1)]
\* A deserialisation that starts row i at xb[i]
deserialize_index_rows(data) ==
    [d |-> data.d,
     vectors |-> [i \in 1..data.ntotal |-> SubSeq(data.xb, i, i + data.d - 1)]]
\* faiss.deserialize_index: row i is xb[(i-1)*d+1 .. i*d]
deserialize_index(data) ==
    [d |-> data.d,
     vectors |-> [i \in 1..data.ntotal |-> SubSeq(data.xb, (i - 1) * data.d + 1, i * data.d)]]

(***************************************************************************)
(* VectorDatabase                                                          *)
(***************************************************************************)
\* __init__
VectorDatabase(dimension) ==
    [dimension |-> dimension, index |-> IndexFlatIP(dimension), chunks |-> <<>>]

\* add_chunks: [raised, db]. normalize_L2 rejects the one-dimensional array an empty
\* list makes and index.add rejects rows of another dimension, both before any write
\* add_chunks with the new chunks put in front of the chunk array
add_chunks_front(db, processed_chunks) ==
    IF processed_chunks = <<>>
       \/ \E i \in 1..Len(processed_chunks) : Len(processed_chunks[i].embedding) # db.index.d
    THEN [raised |-> TRUE, db |-> db]
    ELSE [raised |-> FALSE,
          db |-> [db EXCEPT
                    !.index.vectors = @ \o [i \in 1..Len(processed_chunks) |->
                                              normalize_L2(processed_chunks[i].embedding)],
                    !.chunks = processed_chunks \o @]]

add_chunks(db, processed_chunks) ==
    IF processed_chunks = <<>>
       \/ \E i \in 1..Len(processed_chunks) : Len(processed_chunks[i].embedding) # db.index.d
    THEN [raised |-> TRUE, db |-> db]
    ELSE [raised |-> FALSE,
          db |-> [db EXCEPT
                    !.index.vectors = @ \o [i \in 1..Len(processed_chunks) |->
                                              normalize_L2(processed_chunks[i].embedding)],
                    !.chunks = @ \o processed_chunks]]

\* The (score, idx) pairs the loop of search keeps: `if idx < len(self.chunks)`
Kept(db, found) == SelectSeq(found, LAMBDA f : f.idx < Len(db.chunks))

\* self.chunks[idx]: a negative idx counts from the end of the list
PyItem(list, idx) == list[IF idx < 0 THEN Len(list) + idx + 1 ELSE idx + 1]
PyInRange(list, idx) == -Len(list) <= idx /\ idx < Len(list)

\* A search that asks the index for every row instead of k
vdb_search_all(db, query_embedding, k) ==
    LET Results(kept) ==
            [raised |-> FALSE,
             results |-> [i \in 1..Len(kept) |->
                             <<PyItem(db.chunks, kept[i].idx), kept[i].score>>]]
    IN IF Len(query_embedding) # db.index.d THEN [raised |-> TRUE, results |-> <<>>]
       ELSE Results(Kept(db, index_search(db.index, normalize_L2(query_embedding),
                                          Len(db.index.vectors))))

\* search: [raised, results]; results are <<chunk, score>> pairs. index.search rejects
\* a query of another dimension and self.chunks[idx] raises IndexError out of range
vdb_search(db, query_embedding, k) ==
    LET Results(kept) ==
            IF \E i \in 1..Len(kept) : ~PyInRange(db.chunks, kept[i].idx)
            THEN [raised |-> TRUE, results |-> <<>>]
            ELSE [raised |-> FALSE,
                  results |-> [i \in 1..Len(kept) |->
                                  <<PyItem(db.chunks, kept[i].idx), kept[i].score>>]]
    IN IF Len(query_embedding) # db.index.d THEN [raised |-> TRUE, results |-> <<>>]
       ELSE Results(Kept(db, index_search(db.index, normalize_L2(query_embedding), k)))

\* save: the pickled dict
save(db) ==
    [index |-> serialize_index(db.index), chunks |-> db.chunks, dimension |-> db.dimension]

\* load
load(db, data) ==
    [index |-> deserialize_index(data.index), chunks |-> data.chunks,
     dimension |-> data.dimension]

\* get_stats
get_stats(db) ==
    [total_chunks |-> Len(db.chunks),
     unique_documents |-> Cardinality({db.chunks[i].filename : i \in 1..Len(db.chunks)}),
     dimension |-> db.dimension]

(***************************************************************************)
(* The documents, questions and embeddings the model draws its inputs from *)
(***************************************************************************)
\* "Report"
NameReport == <<"R","e","p","o","r","t">>
\* "Log"
NameLog == <<"L","o","g">>
\* "Empty"
NameEmpty == <<"E","m","p","t","y">>
\* "Daily"
NameDaily == <<"D","a","i","l","y">>
\* "Missing": the name of no document
NameMissing == <<"M","i","s","s","i","n","g">>

\* "6-Sept: Circulated WBM, weight 10.2. Drilling continued through the night."
TextScenario ==
    <<"6","-","S","e","p","t",":"," ","C","i","r","c","u","l","a","t","e","d"," ","W","B","M",
      ","," ","w","e","i","g","h","t"," ","1","0",".","2","."," ","D","r","i","l","l","i","n",
      "g"," ","c","o","n","t","i","n","u","e","d"," ","t","h","r","o","u","g","h"," ","t","h",
      "e"," ","n","i","g","h","t",".">>
\* "7-Sept: Pulled out of hole."
TextSept7 ==
    <<"7","-","S","e","p","t",":"," ","P","u","l","l","e","d"," ","o","u","t"," ","o","f"," ",
      "h","o","l","e",".">>
\* "Rig moved 6/9/2024. Sept 6 standby."
TextLog ==
    <<"R","i","g"," ","m","o","v","e","d"," ","6","/","9","/","2","0","2","4","."," ","S","e",
      "p","t"," ","6"," ","s","t","a","n","d","b","y",".">>
\* A daily report of 559 characters (two chunks at the default chunk size)
TextDaily ==
    <<"6","-","S","e","p","t",":"," ","C","i","r","c","u","l","a","t","e","d"," ","W","B","M",
      ","," ","w","e","i","g","h","t"," ","1","0",".","2","."," ","D","r","i","l","l","i","n",
      "g"," ","c","o","n","t","i","n","u","e","d"," ","t","h","r","o","u","g","h"," ","t","h",
      "e"," ","n","i","g","h","t","."," ","P","u","m","p","e","d"," ","s","w","e","e","p"," ",
      "a","n","d"," ","c","i","r","c","u","l","a","t","e","d"," ","b","o","t","t","o","m","s",
      " ","u","p","."," ","T","r","i","p","p","e","d"," ","o","u","t"," ","o","f"," ","h","o",
      "l","e"," ","t","o"," ","t","h","e"," ","s","h","o","e","."," ","T","e","s","t","e","d",
      " ","r","a","m","s"," ","a","n","d"," ","f","u","n","c","t","i","o","n"," ","t","e","s",
      "t","e","d"," ","t","h","e"," ","s","t","a","c","k","."," ","R","a","n"," ","g","y","r",
      "o"," ","s","u","r","v","e","y"," ","o","n"," ","w","i","r","e","l","i","n","e","."," ",
      "M","i","x","e","d"," ","a","n","d"," ","p","u","m","p","e","d"," ","a"," ","p","i","l",
      "l"," ","b","e","f","o","r","e"," ","t","h","e"," ","t","r","i","p","."," ","P","u","l",
      "l","e","d"," ","o","u","t"," ","o","f"," ","h","o","l","e"," ","a","n","d"," ","l","a",
      "i","d"," ","d","o","w","n"," ","t","o","o","l","s","."," ","7","-","S","e","p","t",":",
      " ","R","a","n"," ","i","n"," ","h","o","l","e"," ","w","i","t","h"," ","n","e","w"," ",
      "a","s","s","e","m","b","l","y","."," ","D","r","i","l","l","e","d"," ","a","h","e","a",
      "d"," ","i","n"," ","t","h","e"," ","l","o","w","e","r"," ","s","e","c","t","i","o","n",
      " ","w","i","t","h","o","u","t"," ","l","o","s","s","e","s","."," ","C","i","r","c","u",
      "l","a","t","e","d"," ","h","o","l","e"," ","c","l","e","a","n"," ","a","t"," ","s","e",
      "c","t","i","o","n"," ","d","e","p","t","h","."," ","S","p","o","t","t","e","d"," ","p",
      "i","l","l"," ","o","n"," ","b","o","t","t","o","m"," ","a","n","d"," ","p","u","l","l",
      "e","d"," ","t","o"," ","t","h","e"," ","s","h","o","e","."," ","C","r","e","w"," ","h",
      "e","l","d"," ","a"," ","s","a","f","e","t","y"," ","m","e","e","t","i","n","g"," ","b",
      "e","f","o","r","e"," ","r","i","g","g","i","n","g"," ","u","p","."," ","W","e","a","t",
      "h","e","r"," ","w","a","s"," ","c","a","l","m"," ","t","h","r","o","u","g","h"," ","t",
      "h","e"," ","s","h","i","f","t",".">>

\* A document named "Report"
DocReport == [filename |-> NameReport, content |-> TextSept7]
DocLog == [filename |-> NameLog, content |-> TextLog]
DocEmpty == [filename |-> NameEmpty, content |-> <<>>]
DocDaily == [filename |-> NameDaily, content |-> TextDaily]
Documents == {DocReport, DocLog, DocEmpty, DocDaily}

\* "What was done on Sept 6?"
QSept6 ==
    <<"W","h","a","t"," ","w","a","s"," ","d","o","n","e"," ","o","n"," ","S","e","p","t"," ",
      "6","?">>
\* "random unrelated question"
QRandom ==
    <<"r","a","n","d","o","m"," ","u","n","r","e","l","a","t","e","d"," ","q","u","e","s","t",
      "i","o","n">>
\* "What drilling procedures were used?"
QDrilling ==
    <<"W","h","a","t"," ","d","r","i","l","l","i","n","g"," ","p","r","o","c","e","d","u","r",
      "e","s"," ","w","e","r","e"," ","u","s","e","d","?">>
\* "Status 6/9/2024?"
QSlash ==
    <<"S","t","a","t","u","s"," ","6","/","9","/","2","0","2","4","?">>
\* "Any update on mud?"
QUpdate ==
    <<"A","n","y"," ","u","p","d","a","t","e"," ","o","n"," ","m","u","d","?">>
Questions == {QSept6, QRandom, QDrilling, QSlash, QUpdate}
Filenames == {NameReport, NameLog, NameMissing}

\* Length of the embedding vectors (the embedding model's 384, scaled down)
Dim == 2
\* Embedding vectors: integer vectors of integral length, padded with zeros to d
Pad(v, d) == [i \in 1..d |-> IF i <= Len(v) THEN v[i] ELSE 0]
Embeddings(d) == {Pad(<<3, 4>>, d), Pad(<<0, 2>>, d), Pad(<<1, 0>>, d)}
\* SentenceTransformer.encode is a fixed function of the text; the model's encoder
\* picks the vector by the length of the text
encode(text, d) == Pad(<<<<3, 4>>, <<0, 2>>, <<1, 0>>>>[(Len(text) % 3) + 1], d)
\* generate_embeddings
generate_embeddings(texts, d) == [i \in 1..Len(texts) |-> encode(texts[i], d)]

\* Chunk lists a caller hands to add_documents itself: the one chunk of "Report"
\* with the scenario's content, and one chunk of "Log" with a date written with
\* slashes
ScenarioChunk ==
    [chunk_id |-> NameReport \o <<"_", "0">>, filename |-> NameReport,
     content |-> TextScenario, embedding |-> encode(TextScenario, Dim), chunk_index |-> 0]
LogChunk ==
    [chunk_id |-> NameLog \o <<"_", "0">>, filename |-> NameLog,
     content |-> TextLog, embedding |-> encode(TextLog, Dim), chunk_index |-> 0]
ChunkLists == {<<ScenarioChunk>>, <<LogChunk>>}


\* Bounds of the model
MaxChunks == 2
MaxTopK == 2
\* The string-hash salts a process may run with
HashSeeds == {1, 2}

(***************************************************************************)
(* The text analysis of the documents and questions above, computed once:  *)
(* the regular expressions give the same answer in every state. A table is *)
(* a set of rows <<argument, value>>; an argument that has no row is       *)
(* computed directly.                                                      *)
(***************************************************************************)
Lookup(table, key, otherwise) ==
    IF \E row \in table : row[1] = key
    THEN (CHOOSE row \in table : row[1] = key)[2]
    ELSE otherwise

chunk_text_table ==
    { <<<<d.content, seed>>,
        chunk_text_smart(d.content, DefaultChunkSize, DefaultOverlap, seed)>> :
      d \in Documents, seed \in HashSeeds }
ChunkTexts ==
    { c : c \in UNION { Range(row[2]) : row \in chunk_text_table }
              \cup UNION { {list[i].content : i \in 1..Len(list)} : list \in ChunkLists } }
extract_dates_table == { <<c, extract_dates(c)>> : c \in ChunkTexts }
extract_keywords_table == { <<lower(c), extract_keywords(lower(c))>> : c \in ChunkTexts }
date_variants_table == { <<q, query_date_variants(q)>> : q \in Questions }
is_date_query_table == { <<q, is_date_query(q)>> : q \in Questions }

\* chunk_text_smart with the default chunk_size and overlap
chunks_of(text, seed) ==
    Lookup(chunk_text_table, <<text, seed>>,
           chunk_text_smart(text, DefaultChunkSize, DefaultOverlap, seed))
dates_of(content) == Lookup(extract_dates_table, content, extract_dates(content))
keywords_of(content) == Lookup(extract_keywords_table, content, extract_keywords(content))
date_variants_of(query) == Lookup(date_variants_table, query, query_date_variants(query))
is_date_question(question) == Lookup(is_date_query_table, question, is_date_query(question))

(***************************************************************************)
(* HybridSearchEngine.index_chunk and search_by_date,                      *)
(* TextProcessor.process_document                                          *)
(***************************************************************************)
\* index_chunk on the engine h = [keyword_index, date_index, chunks_by_id]
index_chunk(h, chunk_data) ==
    LET chunk_id == chunk_data.chunk_id
        content == lower(chunk_data.content)
    IN [chunks_by_id |->
            [id \in DOMAIN h.chunks_by_id \cup {chunk_id} |->
                IF id = chunk_id THEN chunk_data ELSE h.chunks_by_id[id]],
        date_index |-> IndexDates(h.date_index, dates_of(chunk_data.content), chunk_id),
        keyword_index |-> AppendAll(h.keyword_index, keywords_of(content), chunk_id, 1)]

\* matching_chunks of search_by_date, as a set
matching_chunks(dates, query) ==
    { id : id \in UNION { Range(dates[v]) :
                          v \in { w \in date_variants_of(query) : w \in DOMAIN dates } } }

\* search_by_date: list(matching_chunks)
search_by_date(dates, query, seed) == SetToList(matching_chunks(dates, query), seed)

\* date_index after a search_by_date that reads self.date_index[variant_lower]
\* for every variant: the defaultdict inserts each missing key with an empty list
date_index_after_search_unguarded(dates, query) ==
    [k \in DOMAIN dates \cup date_variants_of(query) |->
        IF k \in DOMAIN dates THEN dates[k] ELSE <<>>]
\* date_index after search_by_date: the defaultdict is read only under
\* `if variant_lower in self.date_index`, so only keys it already holds are touched
date_index_after_search(dates, query) ==
    [k \in DOMAIN dates \cup {v \in date_variants_of(query) : v \in DOMAIN dates} |->
        dates[k]]

\* process_document
process_document(document, seed) ==
    LET Processed(chunks, embeddings) ==
            [i \in 1..Len(chunks) |->
                [chunk_id |-> document.filename \o <<"_">> \o IntToStr(i - 1),
                 filename |-> document.filename,
                 content |-> chunks[i],
                 embedding |-> embeddings[i],
                 chunk_index |-> i - 1]]
        Embedded(chunks) == Processed(chunks, generate_embeddings(chunks, Dim))
    IN Embedded(chunks_of(document.content, seed))

(***************************************************************************)
(* State                                                                   *)
(***************************************************************************)
VARIABLES
    session_state,  \* st.session_state: whether qa_system is set, documents_processed
    adding,         \* the add_documents call in progress and its position, Idle between calls
    hashseed,       \* the process's string-hash salt
    llm_type,       \* QASystem.llm_type
    vector_db,      \* QASystem.vector_db
    keyword_index,  \* HybridSearchEngine.keyword_index
    date_index,     \* HybridSearchEngine.date_index
    chunks_by_id,   \* HybridSearchEngine.chunks_by_id
    other_db,       \* a second VectorDatabase instance
    disk,           \* the saved database file, NoFile before the first save
    saved_db,       \* the database as it was when save wrote disk
    last            \* the last operation: its inputs, what it called, what it returned

vars == <<session_state, adding, hashseed, llm_type, vector_db, keyword_index, date_index,
          chunks_by_id, other_db, disk, saved_db, last>>
file_vars == <<other_db, disk, saved_db>>
engine_vars == <<keyword_index, date_index, chunks_by_id>>

\* No file has been written yet
NoFile == [absent |-> TRUE]
\* No add_documents call is running
Idle == [pc |-> "idle"]
\* st.session_state: whether qa_system is set, and documents_processed
SessionState(qa_system, documents_processed) ==
    [qa_system |-> qa_system, documents_processed |-> documents_processed]

NoResult ==
    [question |-> <<>>, answer |-> <<>>, sources |-> <<>>, context_used |-> <<>>,
     search_method |-> "", llm_used |-> ""]

Init ==
    /\ session_state = SessionState(TRUE, FALSE)
    /\ adding = Idle
    /\ hashseed \in HashSeeds
    /\ llm_type \in {"Ollama", "HuggingFace"}
    /\ vector_db = VectorDatabase(Dim)
    /\ keyword_index = EmptyMap
    /\ date_index = EmptyMap
    /\ chunks_by_id = EmptyMap
    /\ other_db = VectorDatabase(Dim)
    /\ disk = NoFile
    /\ saved_db = NoFile
    /\ last = [op |-> "init"]

(***************************************************************************)
(* LLM handlers. What the generation backend does with one request is an   *)
(* input of the call: it returns a text, it answers with a status other    *)
(* than 200 (Ollama), or the request raises (connection error, timeout, an *)
(* exception in the generator).                                            *)
(***************************************************************************)
\* "Circulated WBM."
StrCirculated == <<"C","i","r","c","u","l","a","t","e","d"," ","W","B","M",".">>
\* "Error generating response: timeout"
StrErrorGenerating == <<"E","r","r","o","r"," ","g","e","n","e","r","a","t","i","n","g"," ","r","e","s","p","o","n","s","e",":"," ","t","i","m","e","o","u","t">>
\* "Error: 500 - busy"
StrErrorStatus == <<"E","r","r","o","r",":"," ","5","0","0"," ","-"," ","b","u","s","y">>

Generated(text) == [outcome |-> "ok", text |-> text]
BackendStatus == [outcome |-> "status", text |-> <<>>]
BackendException == [outcome |-> "exception", text |-> <<>>]
GenerationFailures(llm) ==
    IF llm = "Ollama" THEN {BackendStatus, BackendException} ELSE {BackendException}

\* generate_response that lets the backend's failure through as an empty answer
generate_response_silent(llm, backend) ==
    IF backend.outcome = "ok"
    THEN IF llm = "Ollama" THEN backend.text ELSE strip(backend.text)
    ELSE <<>>

\* OllamaLLM.generate_response and HuggingFaceLLM.generate_response: the string the
\* call returns; every exception is caught inside
generate_response(llm, backend) ==
    IF llm = "Ollama"
    THEN IF backend.outcome = "ok" THEN backend.text
         ELSE IF backend.outcome = "status" THEN StrErrorStatus
         ELSE StrErrorGenerating
    ELSE IF backend.outcome = "ok" THEN strip(backend.text)
         ELSE StrErrorGenerating

\* The services a call meets: whether the embedding model answers, and what the
\* generation backend does
Services(embedding, generation) == [embedding |-> embedding, generation |-> generation]
\* The embedding model works; the generation backend answers or raises
ServicesUp ==
    {Services("ok", Generated(StrCirculated)), Services("ok", BackendException)}
\* SentenceTransformer.encode raised
EmbeddingRaised == [raised |-> TRUE, results |-> <<>>]

(***************************************************************************)
(* QASystem. The methods are operators of the state they read, given as    *)
(* parameters (db: vector_db, by_id: chunks_by_id, llm: llm_type, seed:    *)
(* hashseed); the actions apply them to the current state.                 *)
(***************************************************************************)
RECURSIVE index_all(_, _, _)
index_all(h, processed_chunks, i) ==
    IF i > Len(processed_chunks) THEN h
    ELSE index_all(index_chunk(h, processed_chunks[i]), processed_chunks, i + 1)

\* add_documents on s = [db, h]: add_chunks first, then index_chunk for every chunk;
\* an exception in add_chunks leaves both untouched
add_documents(s, processed_chunks) ==
    LET Indexed(added) ==
            IF added.raised THEN [raised |-> TRUE, db |-> s.db, h |-> s.h]
            ELSE [raised |-> FALSE, db |-> added.db,
                  h |-> index_all(s.h, processed_chunks, 1)]
    IN Indexed(add_chunks(s.db, processed_chunks))

\* QASystem.add_documents(processed_chunks) on the current state
AddDocuments(processed_chunks) ==
    LET Done(done) ==
            /\ vector_db' = done.db
            /\ keyword_index' = done.h.keyword_index
            /\ date_index' = done.h.date_index
            /\ chunks_by_id' = done.h.chunks_by_id
            /\ last' = [op |-> "add_documents", added |-> Len(processed_chunks),
                        raised |-> done.raised]
    IN /\ Len(vector_db.chunks) + Len(processed_chunks) <= MaxChunks
       /\ Done(add_documents([db |-> vector_db,
                              h |-> [keyword_index |-> keyword_index,
                                     date_index |-> date_index,
                                     chunks_by_id |-> chunks_by_id]],
                             processed_chunks))
       /\ UNCHANGED <<session_state, adding, hashseed, llm_type, file_vars>>

\* The ingestion loop of app.py for one uploaded file: process_document, then
\* add_documents of its chunks
Ingest(document) == AddDocuments(process_document(document, hashseed))

\* The sources and context_used lists built from search_results
SourcesOf(search_results) ==
    [i \in 1..Len(search_results) |->
        [filename |-> search_results[i][1].filename,
         chunk_index |-> search_results[i][1].chunk_index,
         relevance_score |-> search_results[i][2]]]
\* context_used collected in the opposite order
ContextOf_reversed(search_results) ==
    [i \in 1..Len(search_results) |->
        search_results[Len(search_results) + 1 - i][1].content]
ContextOf(search_results) ==
    [i \in 1..Len(search_results) |-> search_results[i][1].content]

\* answer_question: dense search only
answer_question(db, llm, question, top_k, services) ==
    LET Answer(found) ==
            [question |-> question, top_k |-> top_k,
             embedding |-> services.embedding,
             generation |-> IF found.raised THEN "not called"
                            ELSE services.generation.outcome,
             raised |-> found.raised,
             dense |-> found.results,
             result |-> IF found.raised THEN NoResult
                        ELSE [question |-> question,
                              answer |-> generate_response(llm, services.generation),
                              sources |-> SourcesOf(found.results),
                              context_used |-> ContextOf(found.results),
                              search_method |-> "semantic", llm_used |-> llm]]
    IN Answer(IF services.embedding = "error" THEN EmbeddingRaised
              ELSE vdb_search(db, generate_embeddings(<<question>>, Dim)[1], top_k))

AnswerQuestion(question, top_k, services) ==
    /\ last' = [op |-> "answer_question"]
               @@ answer_question(vector_db, llm_type, question, top_k, services)
    /\ UNCHANGED <<session_state, adding, hashseed, llm_type, vector_db, engine_vars, file_vars>>

\* relevant_chunks that scores a date hit 0.5
relevant_chunks_half(by_id, date_chunk_ids) ==
    LET known == SelectSeq(date_chunk_ids, LAMBDA id : id \in DOMAIN by_id) IN
    [i \in 1..Len(known) |-> <<by_id[known[i]], Rat(1, 2)>>]

\* relevant_chunks of the hybrid branch: (chunk, 1.0) for every id found in chunks_by_id
relevant_chunks(by_id, date_chunk_ids) ==
    LET known == SelectSeq(date_chunk_ids, LAMBDA id : id \in DOMAIN by_id) IN
    [i \in 1..Len(known) |-> <<by_id[known[i]], ROne>>]

\* answer_question_enhanced: what it calls and what it returns
answer_question_enhanced(db, dates, by_id, seed, llm, question, top_k, services) ==
    LET \* The call's record; found is what vector_db.search gave where it ran
        Answer(date_query, date_chunk_ids, hybrid, found, search_results) ==
            [question |-> question, top_k |-> top_k,
             is_date_query |-> date_query,
             called_search_by_date |-> date_query,
             date_chunk_ids |-> date_chunk_ids,
             embedding |-> IF hybrid THEN "not called" ELSE services.embedding,
             generation |-> IF found.raised THEN "not called"
                            ELSE services.generation.outcome,
             called_dense |-> ~hybrid /\ services.embedding = "ok",
             dense |-> found.results,
             raised |-> found.raised,
             result |-> IF found.raised THEN NoResult
                        ELSE [question |-> question,
                              answer |-> generate_response(llm, services.generation),
                              sources |-> SourcesOf(search_results),
                              context_used |-> ContextOf(search_results),
                              search_method |->
                                  IF hybrid THEN "hybrid"
                                  ELSE IF date_query THEN "semantic_fallback"
                                  ELSE "semantic",
                              llm_used |-> llm]]
        \* search_results = relevant_chunks[:top_k]
        Hybrid(date_chunk_ids) ==
            Answer(TRUE, date_chunk_ids, TRUE, [raised |-> FALSE, results |-> <<>>],
                   Prefix(relevant_chunks(by_id, date_chunk_ids), top_k))
        \* search_results = self.vector_db.search(question_embedding, k=top_k)
        Dense(date_query, date_chunk_ids, found) ==
            Answer(date_query, date_chunk_ids, FALSE, found, found.results)
        Routed(date_query, date_chunk_ids) ==
            IF date_query /\ date_chunk_ids # <<>> THEN Hybrid(date_chunk_ids)
            ELSE Dense(date_query, date_chunk_ids,
                       IF services.embedding = "error" THEN EmbeddingRaised
                       ELSE vdb_search(db, generate_embeddings(<<question>>, Dim)[1],
                                       top_k))
        \* date_chunk_ids = self.hybrid_search.search_by_date(question) for a date query
        Classified(date_query) ==
            Routed(date_query,
                   IF date_query THEN search_by_date(dates, question, seed) ELSE <<>>)
    IN Classified(is_date_question(question))

AnswerQuestionEnhanced(question, top_k, services) ==
    /\ last' = [op |-> "answer_question_enhanced"]
               @@ answer_question_enhanced(vector_db, date_index, chunks_by_id, hashseed,
                                           llm_type, question, top_k, services)
    /\ date_index' = IF is_date_question(question)
                     THEN date_index_after_search(date_index, question)
                     ELSE date_index
    /\ UNCHANGED <<session_state, adding, hashseed, llm_type, vector_db, keyword_index,
                   chunks_by_id, file_vars>>

\* HybridSearchEngine.search_by_date called on its own
SearchByDate(query) ==
    /\ last' = [op |-> "search_by_date", question |-> query,
                date_chunk_ids |-> search_by_date(date_index, query, hashseed)]
    /\ date_index' = date_index_after_search(date_index, query)
    /\ UNCHANGED <<session_state, adding, hashseed, llm_type, vector_db, keyword_index,
                   chunks_by_id, file_vars>>

\* "No document found with filename: "
StrNoDocument == <<"N","o"," ","d","o","c","u","m","e","n","t"," ","f","o","u","n","d"," ","w","i","t","h"," ","f","i","l","e","n","a","m","e",":"," ">>

\* Cosine similarity of the question and a chunk's stored embedding
cosine(a, b) == Rat(IntDot(a, b), Norm(a) * Norm(b))

\* similarities.sort(key=..., reverse=True): descending, equal keys in their old order
SortedBySimilarity(pairs) ==
    LET n == Len(pairs)
        before(i, j) == RLess(pairs[j][2], pairs[i][2]) \/ (pairs[i][2] = pairs[j][2] /\ i < j)
        rank(i) == 1 + Cardinality({j \in 1..n : before(j, i)})
    IN [r \in 1..n |-> pairs[CHOOSE i \in 1..n : rank(i) = r]]

\* search_by_filename
search_by_filename(db, llm, filename, question, top_k, services) ==
    LET filename_chunks == SelectSeq(db.chunks, LAMBDA c : c.filename = filename)
        question_embedding == generate_embeddings(<<question>>, Dim)[1]
    IN
    IF filename_chunks = <<>> THEN
        [raised |-> FALSE, embedding |-> "not called", generation |-> "not called",
         result |-> [question |-> question, answer |-> StrNoDocument \o filename,
                     sources |-> <<>>, context_used |-> <<>>,
                     search_method |-> "filename_filter", llm_used |-> llm]]
    ELSE IF services.embedding = "error"
            \/ \E i \in 1..Len(filename_chunks) :
                   Len(filename_chunks[i].embedding) # Len(question_embedding)
    THEN [raised |-> TRUE, embedding |-> services.embedding, generation |-> "not called",
          result |-> NoResult]
    ELSE LET similarities == [i \in 1..Len(filename_chunks) |->
                                <<filename_chunks[i],
                                  cosine(question_embedding, filename_chunks[i].embedding)>>]
             search_results == Prefix(SortedBySimilarity(similarities), top_k)
         IN [raised |-> FALSE, embedding |-> "ok",
             generation |-> services.generation.outcome,
             result |-> [question |-> question,
                         answer |-> generate_response(llm, services.generation),
                         sources |-> SourcesOf(search_results),
                         context_used |-> ContextOf(search_results),
                         search_method |-> "filename_filter", llm_used |-> llm,
                         filtered_by |-> filename]]

SearchByFilename(filename, question, top_k, services) ==
    /\ last' = [op |-> "search_by_filename", filename |-> filename, top_k |-> top_k]
               @@ search_by_filename(vector_db, llm_type, filename, question, top_k,
                                     services)
    /\ UNCHANGED <<session_state, adding, hashseed, llm_type, vector_db, engine_vars, file_vars>>

\* n words of one letter, each followed by a space
Words(n) == [i \in 1..(2 * n) |-> IF i % 2 = 1 THEN "a" ELSE " "]
\* "Circulated WBM and"
StrDangling == <<"C","i","r","c","u","l","a","t","e","d"," ","W","B","M"," ","a","n","d">>
\* "Circulating..."
StrEllipsis == <<"C","i","r","c","u","l","a","t","i","n","g",".",".",".">>
\* 101 words that end with a full stop and hold no conclusion word
StrLong == Words(100) \o <<"e","n","d",".">>
\* 101 words that end with "finally."
StrLongFinally == Words(100) \o <<"f","i","n","a","l","l","y",".">>
\* "then drilling"
StrContinuationOpen == <<"t","h","e","n"," ","d","r","i","l","l","i","n","g">>
GeneratedTexts == {StrCirculated, StrDangling, StrEllipsis, StrLong, StrLongFinally}

\* str.endswith(suffix)
endswith(s, suffix) == Len(suffix) <= Len(s) /\ Suffix(s, Len(suffix)) = suffix
\* ('.', '!', '?', ':')
TerminalPunctuation == {<<".">>, <<"!">>, <<"?">>, <<":">>}
\* ('...', 'and', 'or', 'but', 'however')
DanglingEndings ==
    {<<".",".",".">>, <<"a","n","d">>, <<"o","r">>, <<"b","u","t">>, <<"h","o","w","e","v","e","r">>}
\* ['conclusion', 'summary', 'finally']
ConclusionWords ==
    {<<"c","o","n","c","l","u","s","i","o","n">>,
     <<"s","u","m","m","a","r","y">>,
     <<"f","i","n","a","l","l","y">>}

\* truncation_indicators of answer_question_with_continuation
truncation_indicators(answer) ==
    << ~\E e \in TerminalPunctuation : endswith(strip(answer), e),
       Len(split_ws(answer)) > 100
           /\ ~\E word \in ConclusionWords : Contains(word, lower(answer)),
       \E e \in DanglingEndings : endswith(answer, e) >>
\* any(truncation_indicators)
any(flags) == \E i \in 1..Len(flags) : flags[i]

\* The truncation test of the answers the backends of this model give, computed once
looks_truncated_table ==
    { <<answer, any(truncation_indicators(answer))>> :
        answer \in {generate_response(llm, backend) :
                       llm \in {"Ollama", "HuggingFace"},
                       backend \in {Generated(text) : text \in GeneratedTexts}
                                   \cup {BackendStatus, BackendException}} }
looks_truncated(answer) ==
    Lookup(looks_truncated_table, answer, any(truncation_indicators(answer)))

\* The continued answer that drops the original answer
continued_answer_only(answer, continuation) == continuation

\* answer = answer + " " + continuation
continued_answer(answer, continuation) == answer \o <<" ">> \o continuation

\* answer_question_with_continuation: the record of answer_question_enhanced with the
\* answer continued once where it looks truncated; continuation is what the backend
\* does with the second request
answer_question_with_continuation(db, dates, by_id, seed, llm, question, top_k, services, continuation) ==
    LET Continue(initial, text) ==
            [initial EXCEPT !.result.answer = continued_answer(@, text)]
            @@ [initial_answer |-> initial.result.answer, continued |-> TRUE,
                continuation |-> text, continuation_outcome |-> continuation.outcome,
                llm_calls |-> 2]
        Checked(initial) ==
            IF initial.raised
            THEN initial @@ [initial_answer |-> <<>>, continued |-> FALSE,
                             continuation |-> <<>>, continuation_outcome |-> "not called",
                             llm_calls |-> 0]
            ELSE IF looks_truncated(initial.result.answer)
            THEN Continue(initial, generate_response(llm, continuation))
            ELSE initial @@ [initial_answer |-> initial.result.answer,
                             continued |-> FALSE, continuation |-> <<>>,
                             continuation_outcome |-> "not called", llm_calls |-> 1]
    IN Checked(answer_question_enhanced(db, dates, by_id, seed, llm, question, top_k,
                                        services))

AnswerQuestionWithContinuation(question, top_k, services, continuation) ==
    /\ last' = [op |-> "answer_question_with_continuation"]
               @@ answer_question_with_continuation(vector_db, date_index, chunks_by_id,
                                                    hashseed, llm_type, question, top_k,
                                                    services, continuation)
    /\ date_index' = IF is_date_question(question)
                     THEN date_index_after_search(date_index, question)
                     ELSE date_index
    /\ UNCHANGED <<session_state, adding, hashseed, llm_type, vector_db, keyword_index,
                   chunks_by_id, file_vars>>

(***************************************************************************)
(* The answer operations with failing services: the embedding model may    *)
(* raise, the generation backend may fail, and the generated text may look *)
(* truncated                                                               *)
(***************************************************************************)
\* The services a question can meet under the handler llm
QAServices(llm) ==
    {Services("error", BackendException), Services("ok", Generated(StrCirculated))}
    \cup {Services("ok", failure) : failure \in GenerationFailures(llm)}
\* The same with every generated text
ContinuationServices(llm) ==
    QAServices(llm) \cup {Services("ok", Generated(text)) : text \in GeneratedTexts}
\* What the backend does with the continuation request; its text looks truncated too
Continuations(llm) == {Generated(StrContinuationOpen)} \cup GenerationFailures(llm)
QAQuestions == {QSept6, QDrilling, QSlash}

NextQA ==
    \/ \E processed_chunks \in ChunkLists : AddDocuments(processed_chunks)
    \/ \E top_k \in 1..MaxTopK : \E services \in QAServices(llm_type) :
          AnswerQuestion(QDrilling, top_k, services)
    \/ \E question \in QAQuestions : \E top_k \in 1..MaxTopK :
       \E services \in QAServices(llm_type) :
          AnswerQuestionEnhanced(question, top_k, services)
    \/ \E filename \in Filenames : \E top_k \in 1..MaxTopK :
       \E services \in QAServices(llm_type) :
          SearchByFilename(filename, QDrilling, top_k, services)
    \/ \E question \in {QSept6, QDrilling} :
       \E services \in ContinuationServices(llm_type) :
       \E continuation \in Continuations(llm_type) :
          AnswerQuestionWithContinuation(question, MaxTopK, services, continuation)

SpecQA == Init /\ [][NextQA]_vars

Next ==
    \/ \E document \in Documents : Ingest(document)
    \/ \E processed_chunks \in ChunkLists : AddDocuments(processed_chunks)
    \/ \E question \in {QDrilling, QSept6} : \E top_k \in 1..MaxTopK : \E services \in ServicesUp :
          AnswerQuestion(question, top_k, services)
    \/ \E question \in Questions : \E top_k \in 1..MaxTopK : \E services \in ServicesUp :
          AnswerQuestionEnhanced(question, top_k, services)
    \/ \E filename \in Filenames : \E top_k \in 1..MaxTopK : \E services \in ServicesUp :
          SearchByFilename(filename, QDrilling, top_k, services)
    \/ \E query \in Questions : SearchByDate(query)

Spec == Init /\ [][Next]_vars

(***************************************************************************)
(* Ingestion of a batch of uploaded files (the "Process Documents" button  *)
(* of app.py). An upload is its name, the stem tempfile chose for its copy,*)
(* its content, whether its parser can read it, and whether the embedding  *)
(* model answers while it is processed.                                    *)
(***************************************************************************)
Upload(name, tmp, content, readable, embedding) ==
    [name |-> name, tmp |-> tmp, content |-> content, readable |-> readable,
     embedding |-> embedding]
\* "report.txt"
UploadReport == Upload(<<"r","e","p","o","r","t",".","t","x","t">>, <<"t","m","p","a">>, TextSept7, TRUE, "ok")
\* "log.TXT"
UploadLog == Upload(<<"l","o","g",".","T","X","T">>, <<"t","m","p","b">>, TextLog, TRUE, "ok")
\* "notes.md": no supported format
UploadNotes == Upload(<<"n","o","t","e","s",".","m","d">>, <<"t","m","p","c">>, TextLog, TRUE, "ok")
\* "plan.docx" that python-docx cannot open
UploadPlan == Upload(<<"p","l","a","n",".","d","o","c","x">>, <<"t","m","p","d">>, TextLog, FALSE, "ok")
\* "empty.txt" with no content
UploadEmpty == Upload(<<"e","m","p","t","y",".","t","x","t">>, <<"t","m","p","e">>, <<>>, TRUE, "ok")
\* "scan.pdf" that neither PyPDF2 nor tabula can read
UploadScan == Upload(<<"s","c","a","n",".","p","d","f">>, <<"t","m","p","f">>, TextLog, FALSE, "ok")
\* "late.txt", processed while the embedding model raises
UploadLate == Upload(<<"l","a","t","e",".","t","x","t">>, <<"t","m","p","g">>, TextSept7, TRUE, "error")
Uploads ==
    {UploadReport, UploadLog, UploadNotes, UploadPlan, UploadEmpty, UploadScan, UploadLate}
MaxBatch == 2
\* The batches of 1..MaxBatch uploads
Batches == UNION {[1..n -> Uploads] : n \in 1..MaxBatch}

\* suffix=f".{uploaded_file.name.split('.')[-1]}" and the name of the temporary file
tmp_suffix(name) == <<".">> \o split_on(name, ".")[Len(split_on(name, "."))]
tmp_file_name(upload) == upload.tmp \o tmp_suffix(upload.name)
\* ['.pdf', '.docx', '.txt']
StrPdf == <<".","p","d","f">>
StrDocx == <<".","d","o","c","x">>
StrTxt == <<".","t","x","t">>

\* DocumentParser.parse_document on the temporary copy: parse_pdf swallows the
\* readers' exceptions and gives empty text, parse_docx and parse_txt raise
parse_document(upload) ==
    LET Parsed(file_ext) ==
            IF file_ext \notin {StrPdf, StrDocx, StrTxt}
            THEN [raised |-> TRUE, error |-> "unsupported", document |-> <<>>]
            ELSE IF ~upload.readable /\ file_ext # StrPdf
            THEN [raised |-> TRUE, error |-> "parse", document |-> <<>>]
            ELSE [raised |-> FALSE, error |-> "",
                  document |-> [filename |-> tmp_file_name(upload),
                                content |-> IF upload.readable THEN upload.content
                                            ELSE <<>>,
                                file_type |-> file_ext]]
    IN Parsed(lower(tmp_suffix(upload.name)))

\* One status line: the upload's name with the number of chunks or the error
StatusOk(upload, n) == [name |-> upload.name, ok |-> TRUE, chunks |-> n, error |-> ""]
StatusError(upload, error) ==
    [name |-> upload.name, ok |-> FALSE, chunks |-> 0, error |-> error]

\* The loop body whose except branch records nothing
process_upload_quiet(s, upload, seed) ==
    LET Added(processed_chunks, added) ==
            IF added.raised THEN s
            ELSE [db |-> added.db, h |-> added.h,
                  status |-> Append(s.status, StatusOk(upload, Len(processed_chunks)))]
        Processed(processed_chunks) ==
            Added(processed_chunks,
                  add_documents([db |-> s.db, h |-> s.h], processed_chunks))
        Parsed(parsed) ==
            IF parsed.raised \/ upload.embedding = "error" THEN s
            ELSE Processed(process_document(parsed.document, seed))
    IN Parsed(parse_document(upload))

\* The body of the loop over uploaded_files on s = [db, h, status]: parse_document,
\* process_document, add_documents, and one status line from the try or the except
process_upload(s, upload, seed) ==
    LET Rejected(error) ==
            [s EXCEPT !.status = Append(@, StatusError(upload, error))]
        Added(processed_chunks, added) ==
            IF added.raised THEN Rejected("indexing")
            ELSE [db |-> added.db, h |-> added.h,
                  status |-> Append(s.status, StatusOk(upload, Len(processed_chunks)))]
        Processed(processed_chunks) ==
            Added(processed_chunks,
                  add_documents([db |-> s.db, h |-> s.h], processed_chunks))
        Parsed(parsed) ==
            IF parsed.raised THEN Rejected(parsed.error)
            ELSE IF upload.embedding = "error" THEN Rejected("processing")
            ELSE Processed(process_document(parsed.document, seed))
    IN Parsed(parse_document(upload))

RECURSIVE process_uploads(_, _, _, _)
process_uploads(s, uploaded_files, i, seed) ==
    IF i > Len(uploaded_files) THEN s
    ELSE process_uploads(process_upload(s, uploaded_files[i], seed), uploaded_files,
                         i + 1, seed)

\* The number of chunks the batch adds
ChunksAdded(before, after) == Len(after.chunks) - Len(before.chunks)

\* The button's handler, offered when files are uploaded and qa_system is set:
\* processing_status is emptied, the loop runs over every uploaded file, then
\* documents_processed is set
ProcessDocuments(uploaded_files) ==
    LET Done(done) ==
            /\ ChunksAdded(vector_db, done.db) <= MaxChunks - Len(vector_db.chunks)
            /\ vector_db' = done.db
            /\ keyword_index' = done.h.keyword_index
            /\ date_index' = done.h.date_index
            /\ chunks_by_id' = done.h.chunks_by_id
            /\ last' = [op |-> "process_documents", uploaded_files |-> uploaded_files,
                        processing_status |-> done.status, before |-> vector_db]
    IN /\ uploaded_files # <<>>
       /\ session_state.qa_system
       /\ Done(process_uploads([db |-> vector_db,
                                h |-> [keyword_index |-> keyword_index,
                                       date_index |-> date_index,
                                       chunks_by_id |-> chunks_by_id],
                                status |-> <<>>],
                               uploaded_files, 1, hashseed))
       /\ session_state' = [session_state EXCEPT !.documents_processed = TRUE]
       /\ UNCHANGED <<adding, hashseed, llm_type, file_vars>>

NextIngest ==
    \E uploaded_files \in Batches : ProcessDocuments(uploaded_files)

SpecIngest == Init /\ [][NextIngest]_vars

(***************************************************************************)
(* chunk_text_smart on its own: the initial state holds the arguments of   *)
(* one call, the action applies the function                               *)
(***************************************************************************)
\* Sentences the texts are made of
SentenceRigUp == <<"6","-","S","e","p","t",":"," ","R","i","g"," ","u","p",".">>
SentenceSweep == <<"P","u","m","p","e","d"," ","s","w","e","e","p"," ","a","n","d"," ","c","i","r","c","u","l","a","t","e","d",".">>
SentenceCrew == <<"C","r","e","w"," ","h","e","l","d"," ","a"," ","m","e","e","t","i","n","g","!">>
SentenceStandby == <<"S","e","p","t"," ","7"," ","s","t","a","n","d","b","y",".">>
SentenceGyro == <<"R","a","n"," ","g","y","r","o"," ","s","u","r","v","e","y","?">>
Sentences == {SentenceRigUp, SentenceSweep, SentenceCrew, SentenceStandby, SentenceGyro}
MaxSentences == 3
\* A week of dated entries, 321 characters
TextWeek ==
    <<"6","-","S","e","p","t",":"," ","C","i","r","c","u","l","a","t","e","d"," ","W","B","M"," ","a","n","d"," ","d","r","i","l","l","e","d"," ","a","h","e","a","d"," ","t","o"," ","s","e","c","t","i","o","n"," ","d","e","p","t","h","."," ","7","-","S","e","p","t",":"," ","P","u","l","l","e","d"," ","o","u","t"," ","o","f"," ","h","o","l","e"," ","a","n","d"," ","l","a","i","d"," ","d","o","w","n"," ","t","o","o","l","s","."," ","8","-","S","e","p","t",":"," ","R","a","n"," ","i","n"," ","h","o","l","e"," ","w","i","t","h"," ","n","e","w"," ","a","s","s","e","m","b","l","y","."," ","9","-","S","e","p","t",":"," ","T","e","s","t","e","d"," ","r","a","m","s"," ","a","n","d"," ","f","u","n","c","t","i","o","n"," ","t","e","s","t","e","d"," ","t","h","e"," ","s","t","a","c","k","."," ","1","0","-","S","e","p","t",":"," ","R","a","n"," ","g","y","r","o"," ","s","u","r","v","e","y"," ","o","n"," ","w","i","r","e","l","i","n","e","."," ","1","1","-","S","e","p","t",":"," ","M","i","x","e","d"," ","a","n","d"," ","p","u","m","p","e","d"," ","a"," ","p","i","l","l"," ","b","e","f","o","r","e"," ","t","h","e"," ","t","r","i","p","."," ","1","2","-","S","e","p","t",":"," ","C","r","e","w"," ","h","e","l","d"," ","a"," ","s","a","f","e","t","y"," ","m","e","e","t","i","n","g",".">>
\* "Rig up.\nRig down.": two sentences on two lines
TextLines == <<"R","i","g"," ","u","p",".">> \o <<"\n">> \o <<"R","i","g"," ","d","o","w","n",".">>
\* " Rig up. ": blanks around one sentence
TextPadded == <<" ","R","i","g"," ","u","p","."," ">>
\* The texts: up to MaxSentences sentences with one blank between them, and the above
ChunkInputTexts ==
    {join(<<" ">>, q) : q \in UNION {[1..n -> Sentences] : n \in 0..MaxSentences}}
    \cup {TextWeek, TextLines, TextPadded}
\* chunk_size and overlap: a small pair and the defaults
SmallChunkSize == 40
SmallOverlap == 10
ChunkSizes == {<<SmallChunkSize, SmallOverlap>>, <<DefaultChunkSize, DefaultOverlap>>}

InitChunk ==
    /\ session_state = SessionState(TRUE, FALSE)
    /\ adding = Idle
    /\ hashseed \in HashSeeds
    /\ llm_type = "Ollama"
    /\ vector_db = VectorDatabase(Dim)
    /\ keyword_index = EmptyMap
    /\ date_index = EmptyMap
    /\ chunks_by_id = EmptyMap
    /\ other_db = VectorDatabase(Dim)
    /\ disk = NoFile
    /\ saved_db = NoFile
    /\ last \in {[op |-> "text", text |-> text, chunk_size |-> size[1],
                  overlap |-> size[2]] : text \in ChunkInputTexts, size \in ChunkSizes}

\* chunks = chunk_text_smart(text, chunk_size, overlap)
ChunkTextSmart ==
    /\ last.op = "text"
    /\ last' = [last EXCEPT !.op = "chunk_text_smart"]
               @@ [normalized |-> normalize_dates(last.text, hashseed),
                   chunks |-> chunk_text_smart(last.text, last.chunk_size, last.overlap,
                                               hashseed)]
    /\ UNCHANGED <<session_state, adding, hashseed, llm_type, vector_db, engine_vars, file_vars>>

NextChunk == ChunkTextSmart

SpecChunk == InitChunk /\ [][NextChunk]_vars

(***************************************************************************)
(* generate_date_variants on its own: the initial state holds a date       *)
(* string, one action applies the function to it, a second applies it to   *)
(* one of the variants it returned                                         *)
(***************************************************************************)
DateDays == {<<"6">>, <<"1","5">>}
\* "Sept", "september", "MAY", "Dec", and "Xyz", which is no month
DateMonths ==
    {<<"S","e","p","t">>, <<"s","e","p","t","e","m","b","e","r">>, <<"M","A","Y">>, <<"D","e","c">>, <<"X","y","z">>}
\* "6-Sept", "Sept 6", "6 Sept", "Sept 6, 2024" for every day and month, and "6/9/2024"
DateStrings ==
    UNION {{day \o Hy \o month, month \o Sp \o day, day \o Sp \o month,
            month \o Sp \o day \o <<","," ","2","0","2","4">>} :
              day \in DateDays, month \in DateMonths}
    \cup {<<"6","/","9","/","2","0","2","4">>}

InitDates ==
    /\ session_state = SessionState(TRUE, FALSE)
    /\ adding = Idle
    /\ hashseed = 1
    /\ llm_type = "Ollama"
    /\ vector_db = VectorDatabase(Dim)
    /\ keyword_index = EmptyMap
    /\ date_index = EmptyMap
    /\ chunks_by_id = EmptyMap
    /\ other_db = VectorDatabase(Dim)
    /\ disk = NoFile
    /\ saved_db = NoFile
    /\ last \in {[op |-> "date", date_str |-> d] : d \in DateStrings}

\* variants = generate_date_variants(date_str)
GenerateDateVariants ==
    /\ last.op = "date"
    /\ last' = [op |-> "generate_date_variants", date_str |-> last.date_str,
                variants |-> generate_date_variants(last.date_str)]
    /\ UNCHANGED <<session_state, adding, hashseed, llm_type, vector_db, engine_vars, file_vars>>

\* generate_date_variants(variant) for one of the variants returned
GenerateVariantsOfVariant(variant) ==
    /\ last.op = "generate_date_variants"
    /\ variant \in last.variants
    /\ last' = [op |-> "variants_of_variant", date_str |-> last.date_str,
                variants |-> last.variants, variant |-> variant,
                again |-> generate_date_variants(variant)]
    /\ UNCHANGED <<session_state, adding, hashseed, llm_type, vector_db, engine_vars, file_vars>>

NextDates ==
    \/ GenerateDateVariants
    \/ \E variant \in (IF last.op = "generate_date_variants" THEN last.variants ELSE {}) :
          GenerateVariantsOfVariant(variant)

SpecDates == InitDates /\ [][NextDates]_vars

(***************************************************************************)
(* VectorDatabase on its own: add_chunks and search on the system's        *)
(* database, save to the file, load from it into the same database or into *)
(* a second, freshly constructed one                                       *)
(***************************************************************************)
\* Lists for add_chunks: none, one chunk, and a chunk whose embedding is one longer
VdbChunkLists ==
    { <<>>, <<ScenarioChunk>>, <<LogChunk>>,
      <<[ScenarioChunk EXCEPT !.embedding = Pad(<<3, 4>>, Dim + 1)]>> }
VdbQueries == {Pad(<<3, 4>>, Dim), Pad(<<1, 0>>, Dim)}
Databases == {"vector_db", "other_db"}

VdbAddChunks(processed_chunks) ==
    LET done == add_chunks(vector_db, processed_chunks) IN
    /\ Len(vector_db.chunks) + Len(processed_chunks) <= MaxChunks
    /\ vector_db' = done.db
    /\ last' = [op |-> "add_chunks", raised |-> done.raised, before |-> vector_db]
    /\ UNCHANGED <<session_state, adding, hashseed, llm_type, engine_vars, file_vars>>

VdbSearch(query_embedding, k) ==
    LET found == vdb_search(vector_db, query_embedding, k) IN
    /\ last' = [op |-> "search", k |-> k, raised |-> found.raised,
                results |-> found.results]
    /\ UNCHANGED <<session_state, adding, hashseed, llm_type, vector_db, engine_vars, file_vars>>

\* vector_db.save(path); saved_db remembers the database that was written
Save ==
    /\ disk' = save(vector_db)
    /\ saved_db' = vector_db
    /\ last' = [op |-> "save"]
    /\ UNCHANGED <<session_state, adding, hashseed, llm_type, vector_db, engine_vars, other_db>>

\* VectorDatabase(dimension): a second instance
NewDatabase(dimension) ==
    /\ other_db' = VectorDatabase(dimension)
    /\ last' = [op |-> "new", dimension |-> dimension]
    /\ UNCHANGED <<session_state, adding, hashseed, llm_type, vector_db, engine_vars, disk, saved_db>>

\* db.load(path) on the named database; open() raises when there is no file
Load(target) ==
    LET db == IF target = "vector_db" THEN vector_db ELSE other_db
        raised == disk = NoFile
        loaded == IF raised THEN db ELSE load(db, disk)
    IN /\ vector_db' = IF target = "vector_db" THEN loaded ELSE vector_db
       /\ other_db' = IF target = "other_db" THEN loaded ELSE other_db
       /\ last' = [op |-> "load", target |-> target, raised |-> raised, before |-> db,
                   data |-> disk, saved |-> saved_db]
       /\ UNCHANGED <<session_state, adding, hashseed, llm_type, engine_vars, disk, saved_db>>

NextVDB ==
    \/ \E processed_chunks \in VdbChunkLists : VdbAddChunks(processed_chunks)
    \/ \E q \in VdbQueries : \E k \in 1..MaxTopK : VdbSearch(q, k)
    \/ Save
    \/ \E dimension \in {Dim, Dim + 1} : NewDatabase(dimension)
    \/ \E target \in Databases : Load(target)

SpecVDB == Init /\ [][NextVDB]_vars

(***************************************************************************)
(* Properties                                                              *)
(***************************************************************************)
Enhanced == last.op = "answer_question_enhanced"
Returned == last.op \in {"answer_question", "answer_question_enhanced", "search_by_filename"}
                /\ ~last.raised

\* C1: answer_question_enhanced on a question it classifies as a date query calls
\* search_by_date. When that returns at least one chunk_id, every source of the
\* result has relevance_score exactly 1.0 and search_method is 'hybrid'. When it
\* returns none, the dense search runs, and the result the call returns holds the
\* dense search's results with search_method 'semantic_fallback'.
C1_DateQueryRouting ==
    (Enhanced /\ last.is_date_query) =>
        LET ids == search_by_date(date_index, last.question, hashseed) IN
        /\ last.called_search_by_date
        /\ last.date_chunk_ids = ids
        /\ ids # <<>> =>
              /\ ~last.called_dense
              /\ ~last.raised
              /\ last.result.search_method = "hybrid"
              /\ \A i \in 1..Len(last.result.sources) :
                    last.result.sources[i].relevance_score = ROne
        /\ ids = <<>> =>
              /\ last.called_dense
              /\ ~last.raised =>
                    /\ last.result.search_method = "semantic_fallback"
                    /\ last.result.sources = SourcesOf(last.dense)
C1_Witness ==
    /\ Enhanced
    /\ last.is_date_query
    /\ last.date_chunk_ids # <<>>
    /\ last.result.search_method = "hybrid"
    /\ Len(last.result.sources) >= 1

\* C2: for a question that contains no date-indicator phrase and matches none of
\* the router's date patterns, answer_question_enhanced does not call
\* search_by_date, runs the dense search, and the result it returns has
\* search_method 'semantic'.
C2_NonDateQuestionIsSemantic ==
    (Enhanced /\ ~has_indicator(last.question) /\ ~has_date_pattern(last.question)) =>
        /\ ~last.called_search_by_date
        /\ last.called_dense
        /\ ~last.raised => last.result.search_method = "semantic"
C2_Witness ==
    /\ Enhanced
    /\ last.question = QDrilling
    /\ ~last.raised
    /\ last.result.search_method = "semantic"
    /\ Len(last.result.sources) >= 1
    /\ date_index # EmptyMap

\* C3: on every query path (semantic, hybrid, semantic_fallback, filename_filter),
\* for every index content and every top_k >= 1, a returned result has at most
\* top_k sources.
C3_SourcesAtMostTopK ==
    Returned => (last.top_k >= 1 => Len(last.result.sources) <= last.top_k)
C3_Witness ==
    /\ Returned
    /\ last.result.search_method = "semantic"
    /\ Len(vector_db.chunks) > last.top_k
    /\ Len(last.result.sources) = last.top_k

\* C6: with the single chunk of document "Report" whose content contains "6-Sept:
\* Circulated WBM, weight 10.2. Drilling continued through the night." indexed,
\* the question "What was done on Sept 6?" is classified as a date query, the
\* lowercased variant "sept 6" of its date term is a key of date_index that lists
\* the chunk, search_by_date returns the chunk's id, and answer_question_enhanced
\* returns that chunk with search_method 'hybrid'.
StrSept6Lower == <<"s","e","p","t"," ","6">>
C6_Scenario ==
    (/\ Enhanced
     /\ last.question = QSept6
     /\ Len(vector_db.chunks) = 1
     /\ vector_db.chunks[1].filename = NameReport
     /\ Contains(TextScenario, vector_db.chunks[1].content)) =>
        LET chunk == vector_db.chunks[1] IN
        /\ last.is_date_query
        /\ StrSept6Lower \in query_date_variants(QSept6)
        /\ StrSept6Lower \in DOMAIN date_index
        /\ chunk.chunk_id \in Range(date_index[StrSept6Lower])
        /\ chunk.chunk_id \in Range(search_by_date(date_index, QSept6, hashseed))
        /\ ~last.raised
        /\ last.result.search_method = "hybrid"
        /\ last.result.context_used = <<chunk.content>>
        /\ Len(last.result.sources) = 1
        /\ last.result.sources[1].filename = NameReport
C6_Witness ==
    /\ Enhanced
    /\ last.question = QSept6
    /\ vector_db.chunks = <<ScenarioChunk>>
    /\ last.result.search_method = "hybrid"

\* C7 as stated: for "random unrelated question" search_by_date returns nothing,
\* and answer_question_enhanced then runs the dense search and its result has
\* search_method 'semantic_fallback'.
C7_Original ==
    /\ search_by_date(date_index, QRandom, hashseed) = <<>>
    /\ (Enhanced /\ last.question = QRandom) =>
          /\ last.called_dense
          /\ ~last.raised => last.result.search_method = "semantic_fallback"
\* C7: for "random unrelated question" search_by_date returns nothing;
\* answer_question_enhanced does not classify the question as a date query, so it
\* does not call search_by_date, runs the dense search, and the result it returns
\* has search_method 'semantic'.
C7_RandomQuestionIsSemantic ==
    /\ search_by_date(date_index, QRandom, hashseed) = <<>>
    /\ (Enhanced /\ last.question = QRandom) =>
          /\ ~last.is_date_query
          /\ ~last.called_search_by_date
          /\ last.called_dense
          /\ ~last.raised => last.result.search_method = "semantic"
C7_Witness ==
    /\ Enhanced
    /\ last.question = QRandom
    /\ ~last.raised
    /\ date_index # EmptyMap
    /\ Len(last.result.sources) >= 1
    /\ last.result.search_method = "semantic"

\* C5 as stated: for every chunk in the index and every variant v of a date the
\* indexing patterns found in its content, search_by_date of a query that
\* contains v returns a list that includes the chunk's chunk_id.
C5_DateIndexRoundTrip ==
    last.op = "search_by_date" =>
        \A i \in 1..Len(vector_db.chunks) :
            (\E v \in extract_dates(vector_db.chunks[i].content) :
                Contains(v, last.question))
            => vector_db.chunks[i].chunk_id \in Range(last.date_chunk_ids)

\* C10 as stated: no two entries of the dense index's chunk array share a
\* chunk_id, and a chunk_id denotes one chunk content: the chunk the engine keeps
\* under the id has the content of every array entry with that id.
C10_ChunkIdUniqueAndStable ==
    /\ \A i, j \in 1..Len(vector_db.chunks) :
          i # j => vector_db.chunks[i].chunk_id # vector_db.chunks[j].chunk_id
    /\ \A i \in 1..Len(vector_db.chunks) :
          /\ vector_db.chunks[i].chunk_id \in DOMAIN chunks_by_id
          /\ chunks_by_id[vector_db.chunks[i].chunk_id].content = vector_db.chunks[i].content

\* C4 as stated: search with k larger than the number of indexed chunks (an empty
\* index included) raises no error and returns exactly the available chunks, each
\* once, fewer than k; a padding position (index -1) yields no entry.
C4_SearchBeyondCorpus ==
    (last.op = "search" /\ last.k > Len(vector_db.chunks)) =>
        /\ ~last.raised
        /\ Len(last.results) = Len(vector_db.chunks)
        /\ Len(last.results) < last.k
        /\ \A i \in 1..Len(vector_db.chunks) :
              \E r \in 1..Len(last.results) : last.results[r][1] = vector_db.chunks[i]
        /\ \A r \in 1..Len(last.results) : last.results[r][2] # PadScore

\* C8 as stated: load of a blob whose stored dimension differs from the dimension
\* of the index in the blob, or from the dimension of the database it is loaded
\* into, raises and leaves index, chunks and dimension of that database unchanged.
C8_LoadRejectsMismatch ==
    (/\ last.op = "load"
     /\ last.data # NoFile
     /\ \/ last.data.dimension # last.data.index.d
        \/ last.data.dimension # last.before.dimension) =>
        /\ last.raised
        /\ (IF last.target = "vector_db" THEN vector_db ELSE other_db) = last.before

\* C9: after save, a load into the same database or into a freshly constructed
\* one gives a database whose get_stats() equals that of the database that was
\* saved, and whose search(q, k) returns the same chunks with the same scores in
\* the same order as the saved database's, for every query q and every k.
C9_SaveLoadRoundTrip ==
    (last.op = "load" /\ ~last.raised) =>
        LET db == IF last.target = "vector_db" THEN vector_db ELSE other_db IN
        /\ get_stats(db) = get_stats(last.saved)
        /\ \A q \in VdbQueries : \A k \in 1..MaxTopK :
              vdb_search(db, q, k) = vdb_search(last.saved, q, k)
C9_Witness ==
    /\ last.op = "load"
    /\ ~last.raised
    /\ last.target = "other_db"
    /\ last.before = VectorDatabase(Dim + 1)
    /\ Len(other_db.chunks) >= 2
    /\ other_db.chunks[1] # other_db.chunks[2]

\* C11: after every completed add_chunks or load, the dense index holds as many
\* vectors as the chunk array holds chunks, and the i-th vector is the embedding of
\* the i-th chunk in the form add_chunks stores it (L2-normalised). add_chunks only
\* appends: every (vector, chunk) pair stored before the call is at its old position,
\* unchanged.
C11_Aligned(db) ==
    /\ Len(db.index.vectors) = Len(db.chunks)
    /\ \A i \in 1..Len(db.chunks) :
          db.index.vectors[i] = normalize_L2(db.chunks[i].embedding)
C11_VectorsFollowChunks ==
    /\ (last.op = "add_chunks" /\ ~last.raised) =>
          /\ C11_Aligned(vector_db)
          /\ Len(last.before.chunks) < Len(vector_db.chunks)
          /\ \A i \in 1..Len(last.before.chunks) :
                /\ vector_db.chunks[i] = last.before.chunks[i]
                /\ vector_db.index.vectors[i] = last.before.index.vectors[i]
    /\ (last.op = "load" /\ ~last.raised) =>
          C11_Aligned(IF last.target = "vector_db" THEN vector_db ELSE other_db)
C11_Witness ==
    /\ last.op = "add_chunks"
    /\ ~last.raised
    /\ Len(last.before.chunks) = 1
    /\ Len(vector_db.chunks) = 2
    /\ vector_db.chunks[1] # vector_db.chunks[2]
    /\ C11_Aligned(vector_db)
AnswerOps ==
    {"answer_question", "answer_question_enhanced", "search_by_filename",
     "answer_question_with_continuation"}
ErrorDescriptions == {StrErrorGenerating, StrErrorStatus}

\* C12: when the generation backend fails during an answer operation (connection
\* error, timeout, non-200 status, exception in the generator), generate_response
\* returns an error-description string, no exception leaves the operation, and the
\* operation returns its full result record, whose sources, context_used and
\* search_method are those of the same call with a working backend.
C12_WorkingRun ==
    LET working == Services("ok", Generated(StrCirculated)) IN
    CASE last.op = "answer_question" ->
            answer_question(vector_db, llm_type, last.question, last.top_k, working)
      [] last.op = "search_by_filename" ->
            search_by_filename(vector_db, llm_type, last.filename, last.result.question,
                               last.top_k, working)
      [] OTHER ->
            answer_question_enhanced(vector_db, date_index, chunks_by_id, hashseed,
                                     llm_type, last.question, last.top_k, working)
C12_SameRetrieval ==
    /\ ~last.raised
    /\ ~C12_WorkingRun.raised
    /\ last.result.sources = C12_WorkingRun.result.sources
    /\ last.result.context_used = C12_WorkingRun.result.context_used
    /\ last.result.search_method = C12_WorkingRun.result.search_method
    /\ last.result.question = C12_WorkingRun.result.question
    /\ last.result.llm_used = llm_type
C12_GenerationFailureKeepsSources ==
    /\ (last.op \in AnswerOps /\ last.generation \in {"status", "exception"}) =>
          /\ C12_SameRetrieval
          /\ IF last.op = "answer_question_with_continuation"
             THEN last.initial_answer \in ErrorDescriptions
             ELSE last.result.answer \in ErrorDescriptions
    /\ (last.op = "answer_question_with_continuation"
        /\ last.continuation_outcome \in {"status", "exception"}) =>
          /\ C12_SameRetrieval
          /\ last.continuation \in ErrorDescriptions
          /\ last.result.answer = last.initial_answer \o <<" ">> \o last.continuation
C12_Witness ==
    /\ last.op = "answer_question_enhanced"
    /\ last.generation = "exception"
    /\ ~last.raised
    /\ last.result.answer = StrErrorGenerating
    /\ Len(last.result.sources) = 2
    /\ last.result.search_method = "hybrid"

\* C13: when the embedding service fails while a question is being answered (on the
\* semantic, semantic_fallback or filename_filter path), the answer operation does
\* not raise: it returns a result record whose answer is an error description.
C13_EmbeddingFailureIsAnswered ==
    (last.op \in AnswerOps /\ last.embedding = "error") =>
        /\ ~last.raised
        /\ last.result.answer # <<>>
        /\ last.result.search_method \in {"semantic", "semantic_fallback", "filename_filter"}

\* C14: for every answer operation and every path through it, sources and
\* context_used have equal length, context_used[i] is the content of a stored chunk
\* with the filename and chunk_index of sources[i], and search_method is one of
\* semantic, hybrid, semantic_fallback, filename_filter.
C14_SourcesMatchContext ==
    (last.op \in AnswerOps /\ ~last.raised) =>
        /\ Len(last.result.sources) = Len(last.result.context_used)
        /\ \A i \in 1..Len(last.result.sources) :
              \E j \in 1..Len(vector_db.chunks) :
                 /\ vector_db.chunks[j].filename = last.result.sources[i].filename
                 /\ vector_db.chunks[j].chunk_index = last.result.sources[i].chunk_index
                 /\ vector_db.chunks[j].content = last.result.context_used[i]
        /\ last.result.search_method
              \in {"semantic", "hybrid", "semantic_fallback", "filename_filter"}
C14_Witness ==
    /\ last.op \in AnswerOps
    /\ ~last.raised
    /\ Len(last.result.sources) = 2
    /\ last.result.sources[1].filename # last.result.sources[2].filename
    /\ last.result.context_used[1] # last.result.context_used[2]
    /\ last.result.search_method = "semantic"

\* C15: answer_question_with_continuation calls the generator at most twice for a
\* query (one continuation at most), also when the continued answer still looks
\* truncated; when it continues, the final answer is the original answer, one
\* space, and the continuation; when no truncation indicator holds, the answer is
\* returned unchanged.
C15_OneContinuation ==
    last.op = "answer_question_with_continuation" =>
        /\ last.llm_calls <= 2
        /\ last.raised => last.llm_calls = 0
        /\ ~last.raised =>
              /\ last.continued =>
                    /\ last.llm_calls = 2
                    /\ last.result.answer
                          = last.initial_answer \o <<" ">> \o last.continuation
              /\ ~any(truncation_indicators(last.initial_answer)) =>
                    /\ ~last.continued
                    /\ last.llm_calls = 1
                    /\ last.result.answer = last.initial_answer
C15_Witness ==
    /\ last.op = "answer_question_with_continuation"
    /\ ~last.raised
    /\ last.continued
    /\ last.initial_answer = StrLong
    /\ last.continuation = StrContinuationOpen
    /\ any(truncation_indicators(last.result.answer))
    /\ last.llm_calls = 2
\* C16: in an ingestion batch, a failure on one document (unsupported file type,
\* parse error, processing or indexing error) is recorded in the status entry of
\* that document only; every other document of the batch is processed and its
\* chunks are indexed; the status list has exactly one entry per uploaded file, in
\* the files' order.
C16_FailsAlone(upload) ==
    \/ lower(tmp_suffix(upload.name)) \notin {StrPdf, StrDocx, StrTxt}
    \/ ~upload.readable
    \/ upload.embedding = "error"
    \/ upload.content = <<>>
C16_ChunksOf(upload) ==
    process_document([filename |-> tmp_file_name(upload), content |-> upload.content],
                     hashseed)
RECURSIVE C16_Expected(_, _)
C16_Expected(uploaded_files, i) ==
    IF i > Len(uploaded_files) THEN <<>>
    ELSE (IF C16_FailsAlone(uploaded_files[i]) THEN <<>>
          ELSE C16_ChunksOf(uploaded_files[i]))
         \o C16_Expected(uploaded_files, i + 1)
C16_BatchIsolatesFailures ==
    last.op = "process_documents" =>
        /\ Len(last.processing_status) = Len(last.uploaded_files)
        /\ \A i \in 1..Len(last.uploaded_files) :
              /\ last.processing_status[i].name = last.uploaded_files[i].name
              /\ last.processing_status[i].ok = ~C16_FailsAlone(last.uploaded_files[i])
              /\ last.processing_status[i].ok =>
                    last.processing_status[i].chunks
                        = Len(C16_ChunksOf(last.uploaded_files[i]))
        /\ vector_db.chunks = last.before.chunks \o C16_Expected(last.uploaded_files, 1)
        /\ C11_Aligned(vector_db)
        /\ \A j \in 1..Len(vector_db.chunks) :
              vector_db.chunks[j].chunk_id \in DOMAIN chunks_by_id
C16_Witness ==
    /\ last.op = "process_documents"
    /\ Len(last.uploaded_files) = 2
    /\ ~last.processing_status[1].ok
    /\ last.processing_status[1].error = "unsupported"
    /\ last.processing_status[2].ok
    /\ Len(vector_db.chunks) = Len(last.before.chunks) + 1
\* C17: for every text shorter than chunk_size, chunk_text_smart returns exactly one
\* chunk, and that chunk contains the entire date-normalized text.
C17_ShortTextIsOneChunk ==
    (last.op = "chunk_text_smart" /\ Len(last.text) < last.chunk_size) =>
        /\ Len(last.chunks) = 1
        /\ Contains(last.normalized, last.chunks[1])

\* C18: for every text with no match of a date pattern, no chunk chunk_text_smart
\* returns contains a "Date context:" annotation; for the empty text the returned
\* sequence is empty.
C18_NoDateNoAnnotation ==
    last.op = "chunk_text_smart" =>
        /\ (\A i \in 1..Len(date_patterns) : findall(date_patterns[i], last.text) = <<>>) =>
              \A j \in 1..Len(last.chunks) : ~Contains(StrDateContext, last.chunks[j])
        /\ last.text = <<>> => last.chunks = <<>>
C18_Witness ==
    /\ last.op = "chunk_text_smart"
    /\ \A i \in 1..Len(date_patterns) : findall(date_patterns[i], last.text) = <<>>
    /\ Len(last.chunks) >= 2
    /\ \A j \in 1..Len(last.chunks) : ~Contains(StrDateContext, last.chunks[j])
\* C19: for every date string d that one of the date patterns accepts,
\* generate_date_variants(d) contains d, and for every element v of it,
\* generate_date_variants(v) contains, compared case-insensitively, every form of
\* generate_date_variants(d).
C19_Accepted(d) ==
    \E i \in 1..Len(index_date_patterns) : findall(index_date_patterns[i], d) = <<d>>
C19_VariantsClosed ==
    /\ (last.op = "generate_date_variants" /\ C19_Accepted(last.date_str)) =>
          last.date_str \in last.variants
    /\ (last.op = "variants_of_variant" /\ C19_Accepted(last.date_str)) =>
          \A form \in last.variants : lower(form) \in {lower(v) : v \in last.again}

\* C20: for every date-shaped string whose month token is no recognized month
\* spelling, in the hyphen form ("6-Xyz") and in the space forms ("Xyz 6", "6 Xyz"),
\* generate_date_variants returns only the original string.
C20_MonthTokens(d) ==
    {token \in Range(split_ws(replace(RemoveCh(d, ","), Hy, Sp))) : isalpha(token)}
C20_Unrecognized(d) ==
    /\ C20_MonthTokens(d) # {}
    /\ \A token \in C20_MonthTokens(d) : Prefix(lower(token), 3) \notin MonthKeys
C20_UnknownMonthOnlyOriginal ==
    (last.op = "generate_date_variants" /\ C20_Unrecognized(last.date_str)) =>
        last.variants = {last.date_str}
\* C21: on the hybrid path (every hit has score 1.0) the returned results are in
\* insertion order: the sources are those of the first top_k matching chunks in
\* the order the chunks were added.
C21_ChunkIds == Distinct([i \in 1..Len(vector_db.chunks) |-> vector_db.chunks[i].chunk_id], 1, {})
C21_InInsertionOrder ==
    SelectSeq(C21_ChunkIds, LAMBDA id : id \in Range(last.date_chunk_ids))
C21_HybridCase ==
    /\ last.op = "answer_question_enhanced"
    /\ ~last.raised
    /\ last.result.search_method = "hybrid"
C21_HybridInInsertionOrder ==
    C21_HybridCase =>
        last.result.sources =
            SourcesOf(Prefix(relevant_chunks(chunks_by_id, C21_InInsertionOrder),
                             last.top_k))
(***************************************************************************)
(* add_documents statement by statement, with readers running between the  *)
(* statements: add_chunks builds and normalizes the embeddings, adds them  *)
(* to the index and extends the chunk array; then index_chunk stores each  *)
(* chunk in chunks_by_id, appends its dates and appends its keywords.      *)
(***************************************************************************)
\* The lists handed to add_documents: one chunk, two chunks, none
StepChunkLists == ChunkLists \cup {<<ScenarioChunk, LogChunk>>, <<>>}

\* embeddings = np.array(...); faiss.normalize_L2(embeddings): raises on the empty
\* list before anything is written
BeginAddDocuments(processed_chunks) ==
    /\ adding = Idle
    /\ Len(vector_db.chunks) + Len(processed_chunks) <= MaxChunks
    /\ IF add_chunks(vector_db, processed_chunks).raised
       THEN /\ adding' = Idle
            /\ last' = [op |-> "add_documents", added |-> 0, raised |-> TRUE]
       ELSE /\ adding' = [pc |-> "index.add", processed_chunks |-> processed_chunks,
                          embeddings |-> [i \in 1..Len(processed_chunks) |->
                                            normalize_L2(processed_chunks[i].embedding)],
                          i |-> 1]
            /\ last' = [op |-> "add_documents_begin"]
    /\ UNCHANGED <<session_state, hashseed, llm_type, vector_db, engine_vars, file_vars>>

\* self.index.add(embeddings)
IndexAdd ==
    /\ adding.pc = "index.add"
    /\ vector_db' = [vector_db EXCEPT !.index.vectors = @ \o adding.embeddings]
    /\ adding' = [adding EXCEPT !.pc = "chunks.extend"]
    /\ UNCHANGED <<session_state, hashseed, llm_type, engine_vars, file_vars, last>>

\* self.chunks.extend(processed_chunks)
ChunksExtend ==
    /\ adding.pc = "chunks.extend"
    /\ vector_db' = [vector_db EXCEPT !.chunks = @ \o adding.processed_chunks]
    /\ adding' = [adding EXCEPT !.pc = "chunks_by_id"]
    /\ UNCHANGED <<session_state, hashseed, llm_type, engine_vars, file_vars, last>>

\* index_chunk: self.chunks_by_id[chunk_id] = chunk_data
StoreChunk ==
    /\ adding.pc = "chunks_by_id"
    /\ chunks_by_id' = index_chunk([keyword_index |-> keyword_index,
                                    date_index |-> date_index,
                                    chunks_by_id |-> chunks_by_id],
                                   adding.processed_chunks[adding.i]).chunks_by_id
    /\ adding' = [adding EXCEPT !.pc = "date_index"]
    /\ UNCHANGED <<session_state, hashseed, llm_type, vector_db, keyword_index, date_index,
                   file_vars, last>>

\* index_chunk: the loop over the extracted dates
IndexChunkDates ==
    /\ adding.pc = "date_index"
    /\ date_index' = index_chunk([keyword_index |-> keyword_index,
                                  date_index |-> date_index,
                                  chunks_by_id |-> chunks_by_id],
                                 adding.processed_chunks[adding.i]).date_index
    /\ adding' = [adding EXCEPT !.pc = "keyword_index"]
    /\ UNCHANGED <<session_state, hashseed, llm_type, vector_db, keyword_index, chunks_by_id,
                   file_vars, last>>

\* index_chunk: the loop over the extracted keywords; then the next chunk, or the
\* end of add_documents
IndexChunkKeywords ==
    /\ adding.pc = "keyword_index"
    /\ keyword_index' = index_chunk([keyword_index |-> keyword_index,
                                     date_index |-> date_index,
                                     chunks_by_id |-> chunks_by_id],
                                    adding.processed_chunks[adding.i]).keyword_index
    /\ IF adding.i < Len(adding.processed_chunks)
       THEN /\ adding' = [adding EXCEPT !.pc = "chunks_by_id", !.i = @ + 1]
            /\ UNCHANGED last
       ELSE /\ adding' = Idle
            /\ last' = [op |-> "add_documents", added |-> Len(adding.processed_chunks),
                        raised |-> FALSE]
    /\ UNCHANGED <<session_state, hashseed, llm_type, vector_db, date_index, chunks_by_id,
                   file_vars>>

NextSteps ==
    \/ \E processed_chunks \in StepChunkLists : BeginAddDocuments(processed_chunks)
    \/ IndexAdd
    \/ ChunksExtend
    \/ StoreChunk
    \/ IndexChunkDates
    \/ IndexChunkKeywords
    \/ \E q \in VdbQueries : \E k \in 1..MaxTopK : VdbSearch(q, k)
    \/ SearchByDate(QSept6)

SpecSteps == Init /\ [][NextSteps]_vars

\* C22: at every point of add_documents, every vector of the dense index has its
\* chunk in the chunk array, and every id the date index or the keyword index
\* holds has its entry in chunks_by_id and its chunk in the chunk array.
C22_IndexedIds ==
    UNION ({Range(date_index[k]) : k \in DOMAIN date_index}
           \cup {Range(keyword_index[k]) : k \in DOMAIN keyword_index})
C22_BackedByChunks ==
    /\ Len(vector_db.index.vectors) <= Len(vector_db.chunks)
    /\ \A id \in C22_IndexedIds :
          /\ id \in DOMAIN chunks_by_id
          /\ \E i \in 1..Len(vector_db.chunks) : vector_db.chunks[i].chunk_id = id
\* C23: whenever chunk_text_smart emits a chunk with a prepended "Date context:"
\* line, the prepended sentence is the most recent date-bearing sentence among the
\* sentences before the one that triggered the overflow; it is never the
\* triggering sentence, which is placed only in the next chunk.
C23_Sentences == re_split(PatSentenceEnd, last.normalized)
\* The loop's state after the first i sentences
C23_After(i) ==
    chunk_loop([chunks |-> <<>>, current_chunk |-> <<>>, current_date_context |-> <<>>],
               SubSeq(C23_Sentences, 1, i), 1, last.chunk_size, last.overlap)
\* Sentence i triggered an overflow, and the chunk emitted there
C23_Emitted(i) == Len(C23_After(i).chunks) > Len(C23_After(i - 1).chunks)
C23_Chunk(i) == C23_After(i).chunks[Len(C23_After(i).chunks)]
C23_Annotated(i) == C23_Emitted(i) /\ StartsAt(StrDateContext, C23_Chunk(i), 1)
\* The sentence on the prepended line
C23_ContextLine(i) ==
    SubSeq(split_on(C23_Chunk(i), "\n")[1], Len(StrDateContext) + 1,
           Len(split_on(C23_Chunk(i), "\n")[1]))
C23_ContextIsEarlierSentence ==
    last.op = "chunk_text_smart" =>
        \A i \in 1..Len(C23_Sentences) :
            C23_Annotated(i) =>
                \E m \in 1..(i - 1) :
                    /\ has_date(C23_Sentences[m])
                    /\ \A n \in (m + 1)..i : ~has_date(C23_Sentences[n])
                    /\ C23_ContextLine(i) = C23_Sentences[m]
(***************************************************************************)
(* The Streamlit session of app.py: the buttons' handlers on session_state *)
(* and on the QASystem it holds. The question section, with the database   *)
(* buttons below it, is offered while documents_processed is set.          *)
(***************************************************************************)
\* "Initialize System": a new QASystem with an empty database and engine; the
\* constructor falls back to HuggingFace when OllamaLLM() raises
InitializeSystem(use_ollama, ollama_up) ==
    /\ session_state' = [session_state EXCEPT !.qa_system = TRUE]
    /\ llm_type' = IF use_ollama /\ ollama_up THEN "Ollama" ELSE "HuggingFace"
    /\ vector_db' = VectorDatabase(Dim)
    /\ keyword_index' = EmptyMap
    /\ date_index' = EmptyMap
    /\ chunks_by_id' = EmptyMap
    /\ last' = [op |-> "initialize"]
    /\ UNCHANGED <<adding, hashseed, file_vars>>

\* "Get Answer": answer_question for "Semantic Only", answer_question_enhanced
\* otherwise; an exception is caught and shown
GetAnswer(search_method, question, top_k, services) ==
    /\ session_state.documents_processed
    /\ IF search_method = "Semantic Only"
       THEN AnswerQuestion(question, top_k, services)
       ELSE AnswerQuestionEnhanced(question, top_k, services)

\* "Save Database"
SaveDatabase ==
    /\ session_state.documents_processed
    /\ Save

\* "Load Database": vector_db.load, then documents_processed = True, which it
\* already is where the button is offered; a failed load is caught and shown
LoadDatabase ==
    /\ session_state.documents_processed
    /\ Load("vector_db")

\* "Reset System": the session keys are deleted and the rerun sets qa_system to
\* None and documents_processed to False
ResetSystem ==
    /\ session_state.documents_processed
    /\ session_state' = SessionState(FALSE, FALSE)
    /\ vector_db' = VectorDatabase(Dim)
    /\ keyword_index' = EmptyMap
    /\ date_index' = EmptyMap
    /\ chunks_by_id' = EmptyMap
    /\ last' = [op |-> "reset"]
    /\ UNCHANGED <<adding, hashseed, llm_type, file_vars>>

\* The batches of the session: one good file each, one and two failing files
SessionBatches ==
    {<<UploadReport>>, <<UploadLog>>, <<UploadNotes>>, <<UploadEmpty, UploadScan>>}
\* The engine's lists only grow while load can shrink the database: batches are
\* processed while no list of date_index or keyword_index has MaxPostings entries
MaxPostings == 3
Postings ==
    {Len(date_index[k]) : k \in DOMAIN date_index}
    \cup {Len(keyword_index[k]) : k \in DOMAIN keyword_index}
UploadAndProcess(uploaded_files) ==
    /\ \A n \in Postings : n < MaxPostings
    /\ ProcessDocuments(uploaded_files)

NextSession ==
    \/ \E use_ollama \in BOOLEAN : \E ollama_up \in BOOLEAN :
          InitializeSystem(use_ollama, ollama_up)
    \/ \E uploaded_files \in SessionBatches : UploadAndProcess(uploaded_files)
    \/ \E search_method \in {"Auto (Recommended)", "Semantic Only", "Hybrid Only"} :
          GetAnswer(search_method, QSept6, MaxTopK, Services("ok", Generated(StrCirculated)))
    \/ SaveDatabase
    \/ LoadDatabase
    \/ ResetSystem

SpecSession == Init /\ [][NextSession]_vars

\* C24: after any sequence of add_documents and vector-database load operations
\* the dense index and the keyword/date index describe the same chunks: every
\* chunk of the dense chunk array has an entry in chunks_by_id and, when its
\* content holds a date, is listed in date_index, and every chunk_id of
\* chunks_by_id is in the dense chunk array.
C24_DenseIds == {vector_db.chunks[i].chunk_id : i \in 1..Len(vector_db.chunks)}
C24_SameChunks ==
    /\ \A i \in 1..Len(vector_db.chunks) :
          /\ vector_db.chunks[i].chunk_id \in DOMAIN chunks_by_id
          /\ \A d \in dates_of(vector_db.chunks[i].content) :
                /\ lower(d) \in DOMAIN date_index
                /\ vector_db.chunks[i].chunk_id \in Range(date_index[lower(d)])
    /\ DOMAIN chunks_by_id \subseteq C24_DenseIds

\* C25: the question section is enabled (documents_processed is true) only in
\* states where the dense index holds at least one chunk, so no query runs
\* against an empty index.
C25_QueryOps == {"answer_question", "answer_question_enhanced"}
C25_EnabledOnlyWithChunks ==
    /\ session_state.documents_processed =>
          /\ Len(vector_db.index.vectors) >= 1
          /\ Len(vector_db.chunks) >= 1
    /\ last.op \in C25_QueryOps => Len(vector_db.chunks) >= 1
(***************************************************************************)
(* The query operations side by side, on every index add_documents builds  *)
(***************************************************************************)
NextQueries ==
    \/ \E processed_chunks \in ChunkLists : AddDocuments(processed_chunks)
    \/ \E top_k \in 1..MaxTopK : \E services \in ServicesUp :
          AnswerQuestion(QDrilling, top_k, services)
    \/ \E question \in QAQuestions : \E top_k \in 1..MaxTopK : \E services \in ServicesUp :
          AnswerQuestionEnhanced(question, top_k, services)
    \/ \E question \in {QSept6, QDrilling} : \E services \in ServicesUp :
          AnswerQuestionWithContinuation(question, MaxTopK, services,
                                         Generated(StrContinuationOpen))
    \/ \E filename \in Filenames : \E services \in ServicesUp :
          SearchByFilename(filename, QDrilling, MaxTopK, services)
    \/ \E query \in Questions : SearchByDate(query)
    \/ \E q \in VdbQueries : \E k \in 1..MaxTopK : VdbSearch(q, k)

SpecQueries == Init /\ [][NextQueries]_vars

\* C26: every query operation (answer_question, answer_question_enhanced,
\* answer_question_with_continuation, search_by_filename, search_by_date,
\* VectorDatabase.search) leaves the dense index, the chunk array, keyword_index,
\* date_index with its key set, and chunks_by_id unchanged.
C26_QueryOps ==
    {"answer_question", "answer_question_enhanced", "answer_question_with_continuation",
     "search_by_filename", "search_by_date", "search"}
C26_QueriesChangeNothing ==
    [][last'.op \in C26_QueryOps =>
          /\ vector_db' = vector_db
          /\ keyword_index' = keyword_index
          /\ date_index' = date_index
          /\ DOMAIN date_index' = DOMAIN date_index
          /\ chunks_by_id' = chunks_by_id]_vars
C26_Witness ==
    /\ last.op = "search_by_date"
    /\ date_index # EmptyMap
    /\ \E v \in date_variants_of(last.question) : v \notin DOMAIN date_index
    /\ Len(vector_db.chunks) = 2
    /\ vector_db.chunks[1] # vector_db.chunks[2]
====
